---------------------------- MODULE Spec2Model ----------------------------
(***************************************************************************)
(* Model of the voice-evaluation script of the Food-Calorie-App            *)
(* (evaluation/audio, "EvaluateVoiceWithCharts.js", the FastAPI variant):  *)
(* loadAnnotations, transcribeAndExtract, computeMetrics, perFoodTable,    *)
(* generateChart and main.                                                 *)
(*                                                                         *)
(* Text is modelled character by character: a JavaScript string is a       *)
(* sequence of one-character strings, so that split, trim, toLowerCase,    *)
(* join, replace and the CSV row template do what the code does.           *)
(* A JavaScript value whose type matters (a field of the remote response)  *)
(* is a record tagged with its type.                                       *)
(* A ratio (precision, recall, ...) is modelled as the exact fraction      *)
(* <<n, d>> in lowest terms; the code holds the double nearest to it.      *)
(***************************************************************************)
EXTENDS Integers, Sequences, FiniteSets, TLC

(***************************************************************************)
(* Bounds of the model.                                                    *)
(***************************************************************************)
\* rows of the annotation file in a run of main
MaxAnn == 3
\* samples handed to the metrics engine when it is checked on its own
MaxSamples == 2
\* items of a list handed to mergeAudioAndImageItems on its own
MaxItems == 2
\* calls of getCachedNutrition that may overlap
MaxCalls == 3
\* register requests that may overlap
MaxRegs == 3

(***************************************************************************)
(* Text: String.prototype helpers used by the script.                      *)
(***************************************************************************)
Uppers == <<"A","B","C","D","E","F","G","H","I","J","K","L","M",
            "N","O","P","Q","R","S","T","U","V","W","X","Y","Z">>
Lowers == <<"a","b","c","d","e","f","g","h","i","j","k","l","m",
            "n","o","p","q","r","s","t","u","v","w","x","y","z">>

\* the characters String.prototype.trim strips (those the model's texts use)
WhiteSpace == {" ", "\t", "\n", "\r"}

LowerChar(c) ==
    IF \E i \in 1..Len(Uppers) : Uppers[i] = c
    THEN Lowers[CHOOSE i \in 1..Len(Uppers) : Uppers[i] = c]
    ELSE c

\* s.toLowerCase()
toLowerCase(s) == [i \in 1..Len(s) |-> LowerChar(s[i])]

\* s.trim()
trim(s) ==
    LET keep == {i \in 1..Len(s) : s[i] \notin WhiteSpace}
    IN  IF keep = {} THEN <<>>
        ELSE LET lo == CHOOSE i \in keep : \A j \in keep : i <= j
                 hi == CHOOSE i \in keep : \A j \in keep : j <= i
             IN  SubSeq(s, lo, hi)

\* s.split(sep) for a one-character separator: always at least one token
RECURSIVE split(_, _)
split(s, sep) ==
    IF \A i \in 1..Len(s) : s[i] # sep THEN <<s>>
    ELSE LET k == CHOOSE i \in 1..Len(s) :
                     s[i] = sep /\ \A j \in 1..(i-1) : s[j] # sep
         IN  <<SubSeq(s, 1, k-1)>> \o split(SubSeq(s, k+1, Len(s)), sep)

\* arr.join(sep) for an array of strings
RECURSIVE join(_, _)
join(arr, sep) ==
    IF Len(arr) = 0 THEN <<>>
    ELSE IF Len(arr) = 1 THEN arr[1]
    ELSE arr[1] \o sep \o join(Tail(arr), sep)

\* s.replace(/"/g, '""')
RECURSIVE replaceQuotes(_)
replaceQuotes(s) ==
    IF Len(s) = 0 THEN <<>>
    ELSE (IF s[1] = "\"" THEN <<"\"", "\"">> ELSE <<s[1]>>)
         \o replaceQuotes(Tail(s))

\* arr.includes(x)
includes(arr, x) == \E i \in 1..Len(arr) : arr[i] = x

(***************************************************************************)
(* JavaScript values of the remote response.                               *)
(***************************************************************************)
JUndef == [type |-> "undefined"]
JNull == [type |-> "null"]
JNum(n) == [type |-> "number", num |-> n]
JStr(s) == [type |-> "string", str |-> s]
JArr(a) == [type |-> "array", elems |-> a]
\* an entry of items: an object whose property name holds the given value
JItem(name) == [type |-> "object", name |-> name]
\* the parsed JSON body {transcript, items}
JBody(transcript, items) ==
    [type |-> "object", transcript |-> transcript, items |-> items]

\* ToBoolean
Truthy(v) ==
    CASE v.type = "undefined" -> FALSE
      [] v.type = "null" -> FALSE
      [] v.type = "number" -> v.num # 0
      [] v.type = "string" -> Len(v.str) > 0
      [] OTHER -> TRUE


(***************************************************************************)
(* transcribeAndExtract: one POST to the FastAPI endpoint per call.        *)
(* The input is what the awaited axios.post does: it rejects (timeout      *)
(* after 180 s, transport failure, non-2xx status) or resolves with a      *)
(* response whose data is the parsed body.                                 *)
(***************************************************************************)
\* the record the catch block returns
EmptyResult == [transcript |-> JStr(<<>>), items |-> <<>>]

\* a client that resolves on every HTTP status (validateStatus: () => true)
PostRejectsTransportOnly(outcome) == outcome.kind \in {"timeout", "network"}

\* axios.post rejects: timeout, transport error, status outside 2xx
PostRejects(outcome) == outcome.kind \in {"timeout", "network", "http"}

\* const { transcript, items } = response.data  throws on null / undefined
DestructureThrows(data) == data.type \in {"null", "undefined"}

\* the property of the body, undefined when the body is no object
BodyField(data, f) ==
    IF data.type = "object"
    THEN (IF f = "transcript" THEN data.transcript ELSE data.items)
    ELSE JUndef

\* (items || []).map : .map is a function only on an array
MapThrows(items) == Truthy(items) /\ items.type # "array"

\* (items || [])
ItemsOrEmpty(items) == IF Truthy(items) THEN items.elems ELSE <<>>

\* item.name, undefined on a primitive entry
ItemName(item) == IF item.type = "object" THEN item.name ELSE JUndef

\* item => item.name ? item.name.toLowerCase().trim() : ''  throws when item
\* is null / undefined, or when name is truthy and has no toLowerCase
ItemThrows(item) ==
    \/ item.type \in {"null", "undefined"}
    \/ Truthy(ItemName(item)) /\ ItemName(item).type # "string"

CleanName(item) ==
    IF Truthy(ItemName(item))
    THEN trim(toLowerCase(ItemName(item).str))
    ELSE <<>>

\* .filter(name => name.length > 0)
RECURSIVE filterNonEmpty(_)
filterNonEmpty(names) ==
    IF Len(names) = 0 THEN <<>>
    ELSE (IF Len(names[1]) > 0 THEN <<names[1]>> ELSE <<>>)
         \o filterNonEmpty(Tail(names))

\* cleanedItems
cleanedItems(items) ==
    filterNonEmpty([i \in 1..Len(ItemsOrEmpty(items)) |->
                        CleanName(ItemsOrEmpty(items)[i])])

\* does the body of the try block throw
TryThrows(outcome) ==
    \/ PostRejects(outcome)
    \/ DestructureThrows(outcome.data)
    \/ MapThrows(BodyField(outcome.data, "items"))
    \/ \E i \in 1..Len(ItemsOrEmpty(BodyField(outcome.data, "items"))) :
          ItemThrows(ItemsOrEmpty(BodyField(outcome.data, "items"))[i])

\* the value the promise of transcribeAndExtract resolves with
transcribeAndExtract(outcome) ==
    IF TryThrows(outcome) THEN EmptyResult
    ELSE [transcript |-> BodyField(outcome.data, "transcript"),
          items |-> cleanedItems(BodyField(outcome.data, "items"))]

(***************************************************************************)
(* Numbers: a ratio is the exact fraction <<n, d>>, d > 0, in lowest       *)
(* terms.  The double the code holds is the correctly rounded value of     *)
(* it; 0, 1/2 and 1 are doubles, and rounding is monotone.  A division by  *)
(* zero gives <<0, 0>> (NaN, from 0/0) or <<1, 0>> (Infinity).             *)
(***************************************************************************)
RECURSIVE GCD(_, _)
GCD(a, b) == IF b = 0 THEN a ELSE GCD(b, a % b)

Frac(n, d) ==
    IF d = 0 THEN <<IF n = 0 THEN 0 ELSE 1, 0>>
    ELSE LET g == GCD(n, d) IN <<n \div g, d \div g>>
FAdd(a, b) == Frac(a[1] * b[2] + b[1] * a[2], a[2] * b[2])
FMul(a, b) == Frac(a[1] * b[1], a[2] * b[2])
\* a / b, b # 0
FDiv(a, b) == Frac(a[1] * b[2], a[2] * b[1])
FNaN == <<0, 0>>
FZero == <<0, 1>>
FOne == <<1, 1>>
FHalf == <<1, 2>>

\* the guard of a denominator left out
OrOneDropped(x) == x

\* x || 1 on an integer count
OrOne(x) == IF x = 0 THEN 1 ELSE x
\* x || 1 on a ratio: 0 and NaN are falsy
FOrOne(a) == IF a[1] = 0 THEN FOne ELSE a

\* a plain division
RatioUnguarded(num, den) == Frac(num, den)

\* TP / (TP + FP || 1)
Ratio(num, den) == Frac(num, OrOne(den))

\* 2*precision*recall / (precision+recall || 1)
F1Of(precision, recall) ==
    FDiv(FMul(Frac(2, 1), FMul(precision, recall)),
         FOrOne(FAdd(precision, recall)))

Digits == <<"0","1","2","3","4","5","6","7","8","9">>

RECURSIVE IntText(_)
IntText(k) ==
    IF k < 10 THEN <<Digits[k + 1]>>
    ELSE IntText(k \div 10) \o <<Digits[(k % 10) + 1]>>

\* x.toFixed(3) for x >= 0: the string of the nearest multiple of 1/1000,
\* the larger one on a tie
toFixed3(a) ==
    IF a[2] = 0
    THEN (IF a[1] = 0 THEN <<"N", "a", "N">>
          ELSE <<"I", "n", "f", "i", "n", "i", "t", "y">>)
    ELSE LET m == (2000 * a[1] + a[2]) \div (2 * a[2])
         IN  IntText(m \div 1000) \o <<".">> \o
             <<Digits[((m \div 100) % 10) + 1],
               Digits[((m \div 10) % 10) + 1],
               Digits[(m % 10) + 1]>>

(***************************************************************************)
(* computeMetrics and perFoodTable.                                        *)
(***************************************************************************)
\* arr => vocab.map(f => arr.includes(f) ? 1 : 0)
VocabRow(arr, vocab) ==
    [i \in 1..Len(vocab) |-> IF includes(arr, vocab[i]) THEN 1 ELSE 0]

\* yTrue.map(...), yPred.map(...)
LabelMatrix(y, vocab) == [j \in 1..Len(y) |-> VocabRow(y[j], vocab)]

\* m.flat()
RECURSIVE flatten(_)
flatten(m) == IF Len(m) = 0 THEN <<>> ELSE m[1] \o flatten(Tail(m))

\* an index off by one
AtNext(a, i) == IF i + 1 <= Len(a) THEN a[i + 1] ELSE -1

\* yP[i], undefined (here -1) past the end of the array
At(a, i) == IF i <= Len(a) THEN a[i] ELSE -1

\* the loop body with the tests of FP and FN exchanged
CountStepSwapped(c, yT, yP, i) ==
    [TP |-> c.TP + (IF At(yP, i) = 1 /\ yT[i] = 1 THEN 1 ELSE 0),
     FP |-> c.FP + (IF At(yP, i) = 0 /\ yT[i] = 1 THEN 1 ELSE 0),
     FN |-> c.FN + (IF At(yP, i) = 1 /\ yT[i] = 0 THEN 1 ELSE 0),
     TN |-> c.TN + (IF At(yP, i) = 0 /\ yT[i] = 0 THEN 1 ELSE 0)]

\* one pass of the counting loop body at index i
CountStep(c, yT, yP, i) ==
    [TP |-> c.TP + (IF At(yP, i) = 1 /\ yT[i] = 1 THEN 1 ELSE 0),
     FP |-> c.FP + (IF At(yP, i) = 1 /\ yT[i] = 0 THEN 1 ELSE 0),
     FN |-> c.FN + (IF At(yP, i) = 0 /\ yT[i] = 1 THEN 1 ELSE 0),
     TN |-> c.TN + (IF At(yP, i) = 0 /\ yT[i] = 0 THEN 1 ELSE 0)]

\* for (let i=0; i<yT.length; i++) { ... }
RECURSIVE CountLoop(_, _, _, _)
CountLoop(c, yT, yP, i) ==
    IF i > Len(yT) THEN c
    ELSE CountLoop(CountStep(c, yT, yP, i), yT, yP, i + 1)

computeMetrics(yTrue, yPred, vocab) ==
    LET trueMatrix == LabelMatrix(yTrue, vocab)
        predMatrix == LabelMatrix(yPred, vocab)
        c == CountLoop([TP |-> 0, FP |-> 0, FN |-> 0, TN |-> 0],
                       flatten(trueMatrix), flatten(predMatrix), 1)
        precision == Ratio(c.TP, c.TP + c.FP)
        recall == Ratio(c.TP, c.TP + c.FN)
    IN  [precision |-> precision,
         recall |-> recall,
         f1 |-> F1Of(precision, recall),
         accuracy |-> Ratio(c.TP + c.TN, c.TP + c.TN + c.FP + c.FN),
         TP |-> c.TP, FP |-> c.FP, FN |-> c.FN, TN |-> c.TN,
         trueMatrix |-> trueMatrix, predMatrix |-> predMatrix]

\* the inner loop with the tests of FP and FN exchanged
RECURSIVE ColumnLoopSwapped(_, _, _, _, _)
ColumnLoopSwapped(c, trueMatrix, predMatrix, i, j) ==
    IF j > Len(trueMatrix) THEN c
    ELSE ColumnLoopSwapped(
           [TP |-> c.TP + (IF predMatrix[j][i] = 1 /\ trueMatrix[j][i] = 1
                           THEN 1 ELSE 0),
            FP |-> c.FP + (IF predMatrix[j][i] = 0 /\ trueMatrix[j][i] = 1
                           THEN 1 ELSE 0),
            FN |-> c.FN + (IF predMatrix[j][i] = 1 /\ trueMatrix[j][i] = 0
                           THEN 1 ELSE 0)],
           trueMatrix, predMatrix, i, j + 1)

\* the inner loop of perFoodTable over the samples j, for column i
RECURSIVE ColumnLoop(_, _, _, _, _)
ColumnLoop(c, trueMatrix, predMatrix, i, j) ==
    IF j > Len(trueMatrix) THEN c
    ELSE ColumnLoop(
           [TP |-> c.TP + (IF predMatrix[j][i] = 1 /\ trueMatrix[j][i] = 1
                           THEN 1 ELSE 0),
            FP |-> c.FP + (IF predMatrix[j][i] = 1 /\ trueMatrix[j][i] = 0
                           THEN 1 ELSE 0),
            FN |-> c.FN + (IF predMatrix[j][i] = 0 /\ trueMatrix[j][i] = 1
                           THEN 1 ELSE 0)],
           trueMatrix, predMatrix, i, j + 1)

\* the record pushed for column i; precision, recall and f1 are the strings
\* toFixed(3) returns
FoodRecord(trueMatrix, predMatrix, vocab, i) ==
    LET c == ColumnLoop([TP |-> 0, FP |-> 0, FN |-> 0],
                        trueMatrix, predMatrix, i, 1)
        precision == Ratio(c.TP, c.TP + c.FP)
        recall == Ratio(c.TP, c.TP + c.FN)
        f1 == F1Of(precision, recall)
    IN  [food |-> vocab[i],
         precision |-> JStr(toFixed3(precision)),
         recall |-> JStr(toFixed3(recall)),
         f1 |-> JStr(toFixed3(f1)),
         TP |-> c.TP, FP |-> c.FP, FN |-> c.FN]

perFoodTable(trueMatrix, predMatrix, vocab) ==
    [i \in 1..Len(vocab) |-> FoodRecord(trueMatrix, predMatrix, vocab, i)]

(***************************************************************************)
(* Configuration of the script.                                            *)
(***************************************************************************)
apple == <<"a","p","p","l","e">>
banana == <<"b","a","n","a","n","a">>
pasta == <<"p","a","s","t","a">>
cheese == <<"c","h","e","e","s","e">>
chicken == <<"c","h","i","c","k","e","n">>
rice == <<"r","i","c","e">>
pizza == <<"p","i","z","z","a">>
salad == <<"s","a","l","a","d">>
bread == <<"b","r","e","a","d">>
vegetables == <<"v","e","g","e","t","a","b","l","e","s">>

FOOD_VOCAB == <<apple, banana, pasta, cheese, chicken, rice, pizza, salad,
                bread, vegetables>>

PREDICTIONS_FILE == "predictions.csv"
CHART_FILE == "metrics_chart.png"

\* 'audio_id,ground_truth,predicted,transcript\n'
predCsvHeader ==
    <<
      "a", "u", "d", "i", "o", "_", "i", "d", ",", "g", "r", "o",
      "u", "n", "d", "_", "t", "r", "u", "t", "h", ",", "p", "r",
      "e", "d", "i", "c", "t", "e", "d", ",", "t", "r", "a", "n",
      "s", "c", "r", "i", "p", "t", "\n"
    >>

(***************************************************************************)
(* loadAnnotations: the rows csv-parser emits, in file order, each turned  *)
(* into { audio_id, ground_truth: split(',').map(trim, toLowerCase) }.     *)
(***************************************************************************)
\* row.ground_truth.split(',').map(i => i.trim().toLowerCase())
GroundTruthItems(cell) ==
    LET tokens == split(cell, ",")
    IN  [k \in 1..Len(tokens) |-> toLowerCase(trim(tokens[k]))]

\* a loader that keeps the first row of every audio_id only
RECURSIVE loadAnnotationsFirstOfEach(_)
loadAnnotationsFirstOfEach(rows) ==
    IF Len(rows) = 0 THEN <<>>
    ELSE LET n == Len(rows)
             before == loadAnnotationsFirstOfEach(SubSeq(rows, 1, n - 1))
         IN  IF \E k \in 1..(n - 1) : rows[k].audio_id = rows[n].audio_id
             THEN before
             ELSE Append(before,
                         [audio_id |-> rows[n].audio_id,
                          ground_truth |-> GroundTruthItems(rows[n].ground_truth)])

\* the value the promise resolves with: one record per 'data' event, pushed
\* in the order the rows were emitted
loadAnnotations(rows) ==
    [i \in 1..Len(rows) |->
        [audio_id |-> rows[i].audio_id,
         ground_truth |-> GroundTruthItems(rows[i].ground_truth)]]

\* the columns the 'data' handler reads
RequiredColumns == {"audio_id", "ground_truth"}

\* String(undefined): what the template literals of main make of a
\* row.audio_id that is undefined
undefinedText == <<"u", "n", "d", "e", "f", "i", "n", "e", "d">>

\* the row objects csv-parser emits for a table with the given header: a
\* property is there only when the header names it.  main reads audio_id
\* only inside template literals, so an absent audio_id is held as the text
\* these give; an absent ground_truth is never read (DataThrows).
RowObjects(rows, columns) ==
    [i \in 1..Len(rows) |->
        [audio_id |-> IF "audio_id" \in columns THEN rows[i].audio_id
                                                 ELSE undefinedText,
         ground_truth |-> rows[i].ground_truth]]

\* row.ground_truth.split throws a TypeError in the 'data' handler when the
\* header has no ground_truth column and the table has a row
DataThrows(rows, columns) == "ground_truth" \notin columns /\ Len(rows) > 0

\* how the stream built by loadAnnotations ends:
\*   crash    the read stream emits 'error' (the file cannot be opened) and
\*            has no 'error' listener (.on('error', reject) is attached to
\*            the csv() stream that pipe returns), or the 'data' handler
\*            throws inside the stream's callback: an uncaught exception,
\*            the promise is never settled
\*   resolved 'end' was emitted
LoadEnds(opens, rows, columns) ==
    IF ~opens THEN "crash"
    ELSE IF DataThrows(rows, columns) THEN "crash"
    ELSE "resolved"

(***************************************************************************)
(* The predictions table main writes.                                      *)
(***************************************************************************)
\* the object main pushes to predictions
PredictionOf(row, result) ==
    [audio_id |-> row.audio_id,
     ground_truth |-> join(row.ground_truth, <<",">>),
     predicted |-> join(result.items, <<",">>),
     transcript |-> result.transcript]

\* p.transcript.replace is a function only on a string
RowThrows(p) == p.transcript.type # "string"

\* `${p.audio_id},"${p.ground_truth}","${p.predicted}","${p.transcript.replace(/"/g,'""')}"`
PredRow(p) ==
    p.audio_id \o <<",", "\"">> \o p.ground_truth \o <<"\"", ",", "\"">>
    \o p.predicted \o <<"\"", ",", "\"">>
    \o replaceQuotes(p.transcript.str) \o <<"\"">>

\* predCsvHeader + predictions.map(...).join('\n')
PredCsv(preds) ==
    predCsvHeader \o join([i \in 1..Len(preds) |-> PredRow(preds[i])], <<"\n">>)

(***************************************************************************)
(* Inputs of a run of main: the rows of annotations.csv, the .wav files    *)
(* present in the audio folder, and what each POST does.                   *)
(***************************************************************************)
a1 == <<"a", "1">>
a2 == <<"a", "2">>
SampleIds == {a1, a2}

\* ground_truth cells: 'apple' and ' Banana,apple'
GroundTruthCells == {apple, <<" ">> \o <<"B">> \o Tail(banana) \o <<",">> \o apple}

AnnotationRows == [audio_id : SampleIds, ground_truth : GroundTruthCells]

AnnotationFiles == UNION {[1..n -> AnnotationRows] : n \in 0..MaxAnn}

hi == <<"h", "i">>

\* bodies of a 2xx response
ResponseBodies ==
    { JBody(JStr(hi), JArr(<<JItem(JStr(<<"A">> \o Tail(apple) \o <<" ">>))>>)),
      JBody(JStr(hi), JArr(<<JNull>>)),
      JBody(JStr(hi), JArr(<<JItem(JNum(5))>>)),
      JBody(JStr(hi), JStr(apple)),
      JBody(JUndef, JArr(<<JItem(JUndef), JItem(JStr(banana))>>)),
      JBody(JNum(5), JUndef),
      JNull }

\* the body of a non-2xx answer of FastAPI: {detail: ...}
ErrorBody == JBody(JUndef, JUndef)

\* what a POST does: no response within 180 s, a transport failure, a
\* response with a status outside 2xx, a 2xx response
RemoteOutcomes ==
    { [kind |-> "timeout", data |-> JUndef],
      [kind |-> "network", data |-> JUndef],
      [kind |-> "http", data |-> ErrorBody] }
    \cup { [kind |-> "ok", data |-> b] : b \in ResponseBodies }

(***************************************************************************)
(* State.                                                                  *)
(***************************************************************************)
VARIABLES
    pc,             \* where main is: load, loop, await, metrics, chart, done,
                    \* exit1 (process.exit(1) in main().catch), crash (the
                    \* process died of an uncaught exception)
    csvOpens,       \* can annotations.csv be opened for reading
    csvColumns,     \* the required columns its header names
    annotationRows, \* the rows of annotations.csv
    media,          \* the audio_ids whose .wav file exists
    annotations,    \* const annotations
    idx,            \* the loop index: annotations handled so far
    yTrue, yPred, predictions,
    inflight,       \* POSTs sent and not yet settled
    requests,       \* the annotation index of every POST sent, in order
    lastOutcome,    \* how the POST settled last ended: its kind, none before
    files,          \* files written by this run: name -> content
    metrics,        \* const metrics, once computed
    foodTable,      \* const foodTable, once computed
    exitCode,       \* the code process.exit was called with, -1 before
    thrown,         \* the error that ended the run: none, open, format, row,
                    \* write, chart
    mTrue, mPred, mVocab,   \* arguments handed to the metrics engine
    mOut, mTable,           \* what the last calls returned
    mBase, mBaseTable,      \* what the first calls returned
    cRecord, cRow, cParsed, \* a prediction, its row, the row read back
    lFile,          \* the table loadAnnotations is called on
    lEmitted,       \* the 'data' events csv-parser has emitted
    results,        \* const results of loadAnnotations
    lPromise,       \* the promise loadAnnotations returned
    lUncaught,      \* an exception escaped to the top of the process
    req,            \* the HTTP request the backend handles
    stage,          \* where it is: received, handler, ml, persist, done
    disk,           \* the uploaded files multer has stored and nobody deleted
    mlCalls,        \* requests sent to the ML service
    lookups,        \* calls of getCachedNutrition
    dbWrites,       \* records created through prisma
    status,         \* the status of the response sent, 0 before, -1 when
                    \* the handler's promise rejected without a response
    audioItems,     \* let audioItems of createMeal
    responses,      \* the responses sent for the request
    persisted,      \* the files whose URL the created record holds
    unlinks,        \* the requests of fs.unlink, for each file
    mlResponse,     \* how the fetch of analyzeFood settled: let mlResponse
    gImage,         \* the imageItems handed to mergeAudioAndImageItems
    gAudio,         \* the audioItems handed to it
    gMerged,        \* what it returned
    nutritionCache, \* const nutritionCache: the Map, as a function of its keys
    calls,          \* the calls of getCachedNutrition: where each is, its result
    fetches,        \* the requests sent to OpenFoodFacts
    users,          \* the rows of the User table, in the order of their creation
    regs            \* the register requests: where each is, its response

runVars == <<pc, csvOpens, csvColumns, annotationRows, media, annotations,
             idx, yTrue, yPred, predictions, inflight, requests, lastOutcome,
             files, metrics, foodTable, exitCode, thrown>>
metVars == <<mTrue, mPred, mVocab, mOut, mTable, mBase, mBaseTable>>
csvVars == <<cRecord, cRow, cParsed>>
loadVars == <<lFile, lEmitted, results, lPromise, lUncaught>>
apiVars ==
    <<req, stage, disk, mlCalls, lookups, dbWrites, status, audioItems,
      responses, persisted, unlinks, mlResponse>>
mergeVars == <<gImage, gAudio, gMerged>>
cacheVars == <<nutritionCache, calls, fetches>>
regVars == <<users, regs>>
vars == <<runVars, metVars, csvVars, loadVars, apiVars, mergeVars, cacheVars, regVars>>

\* a result not computed yet
NotYet == [called |-> FALSE]
Returned(v) == [called |-> TRUE, out |-> v]

\* the variables a specification does not use
MetIdle ==
    /\ mTrue = <<>> /\ mPred = <<>> /\ mVocab = <<>>
    /\ mOut = NotYet /\ mTable = NotYet /\ mBase = NotYet /\ mBaseTable = NotYet
CsvIdle == cRecord = NotYet /\ cRow = NotYet /\ cParsed = NotYet
LoadIdle ==
    /\ lFile = NotYet /\ lEmitted = 0 /\ results = <<>>
    /\ lPromise = NotYet /\ lUncaught = FALSE
ApiIdle ==
    /\ req = NotYet /\ stage = "idle" /\ disk = {}
    /\ mlCalls = 0 /\ lookups = 0 /\ dbWrites = 0 /\ status = 0
    /\ audioItems = JNull /\ responses = 0 /\ persisted = {}
    /\ unlinks = [image |-> 0, audio |-> 0] /\ mlResponse = NotYet
MergeIdle ==
    /\ gImage = JNull /\ gAudio = JNull /\ gMerged = NotYet
CacheIdle ==
    /\ nutritionCache = <<>> /\ calls = <<>> /\ fetches = 0
RegIdle ==
    /\ users = <<>> /\ regs = <<>>
RunIdle ==
    /\ pc = "idle" /\ csvOpens = TRUE /\ csvColumns = {}
    /\ annotationRows = <<>> /\ media = {} /\ annotations = <<>>
    /\ idx = 0 /\ yTrue = <<>> /\ yPred = <<>> /\ predictions = <<>>
    /\ inflight = 0 /\ requests = <<>> /\ lastOutcome = "none"
    /\ files = <<>>
    /\ metrics = NotYet /\ foodTable = NotYet /\ exitCode = -1
    /\ thrown = "none"

(***************************************************************************)
(* main.                                                                   *)
(***************************************************************************)
Init ==
    /\ pc = "load"
    /\ csvOpens \in BOOLEAN
    /\ csvColumns \in SUBSET RequiredColumns
    /\ annotationRows \in AnnotationFiles
    /\ media \in SUBSET SampleIds
    /\ annotations = <<>>
    /\ idx = 0
    /\ yTrue = <<>> /\ yPred = <<>> /\ predictions = <<>>
    /\ inflight = 0
    /\ requests = <<>>
    /\ lastOutcome = "none"
    /\ files = <<>>
    /\ metrics = NotYet /\ foodTable = NotYet
    /\ exitCode = -1
    /\ thrown = "none"
    /\ MetIdle /\ CsvIdle /\ LoadIdle /\ ApiIdle
    /\ MergeIdle /\ CacheIdle /\ RegIdle

\* fs.existsSync left out: every .wav file is taken to be there
existsAlways(audio_id) == TRUE

\* fs.existsSync(path.join(AUDIO_FOLDER, `${audio_id}.wav`))
existsSync(audio_id) == audio_id \in media

\* a loop that does not await transcribeAndExtract before it goes on
MaySendWhileWaiting == pc \in {"loop", "await"}

\* the loop sends the next POST only when it is not suspended in an await
MaySend == pc = "loop"

\* a loop that calls again for the same annotation after a failed call
NextIdxRetry(i, kind) ==
    IF kind \in {"timeout", "network", "http"} THEN i ELSE i + 1

\* idx++ at the end of the loop body, however the call ended
NextIdx(i, kind) == i + 1

\* a timeout that ends the batch
ResumeAbortsOnTimeout(kind) == IF kind = "timeout" THEN "exit1" ELSE "loop"

\* where main goes on when the awaited transcribeAndExtract has returned: the
\* rest of the loop body, then the loop test
ResumeAt(kind) == "loop"

\* the table written as soon as one annotation was handled
LoopOverAfterFirst == idx >= 1 \/ Len(annotations) = 0

\* the loop test idx < annotations.length is false
LoopOver == ~(idx < Len(annotations))

\* the exit status of the process once it has ended: 0 when main returned
\* and nothing keeps the event loop alive, the argument of process.exit, 1
\* for an uncaught exception; -1 while it runs
exitStatus ==
    CASE pc = "done" -> 0
      [] pc = "exit1" -> exitCode
      [] pc = "crash" -> 1
      [] OTHER -> -1

\* const annotations = await loadAnnotations(CSV_FILE)
MainLoad ==
    /\ pc = "load"
    /\ IF LoadEnds(csvOpens, annotationRows, csvColumns) = "resolved"
       THEN /\ annotations'
                  = loadAnnotations(RowObjects(annotationRows, csvColumns))
            /\ pc' = "loop"
            /\ UNCHANGED thrown
       ELSE /\ pc' = "crash"
            /\ thrown' = IF csvOpens THEN "format" ELSE "open"
            /\ UNCHANGED annotations
    /\ UNCHANGED <<annotationRows, media, idx, yTrue, yPred, predictions,
                   inflight, requests, lastOutcome, files, metrics, foodTable,
                   exitCode>>
    /\ UNCHANGED <<csvOpens, csvColumns, metVars, csvVars, loadVars, apiVars,
                 mergeVars, cacheVars, regVars>>

\* an iteration whose .wav file is missing: warn and continue
MainSkip ==
    /\ pc = "loop"
    /\ idx < Len(annotations)
    /\ ~existsSync(annotations[idx + 1].audio_id)
    /\ idx' = idx + 1
    /\ UNCHANGED <<pc, annotationRows, media, annotations, yTrue, yPred,
                   predictions, inflight, requests, lastOutcome, files, metrics,
                   foodTable, exitCode, thrown>>
    /\ UNCHANGED <<csvOpens, csvColumns, metVars, csvVars, loadVars, apiVars,
                 mergeVars, cacheVars, regVars>>

\* an iteration up to the await: transcribeAndExtract sends its POST
MainSend ==
    /\ MaySend
    /\ idx < Len(annotations)
    /\ existsSync(annotations[idx + 1].audio_id)
    /\ inflight' = inflight + 1
    /\ requests' = Append(requests, idx + 1)
    /\ pc' = "await"
    /\ UNCHANGED <<annotationRows, media, annotations, idx, yTrue, yPred,
                   predictions, lastOutcome, files, metrics, foodTable,
                   exitCode, thrown>>
    /\ UNCHANGED <<csvOpens, csvColumns, metVars, csvVars, loadVars, apiVars,
                 mergeVars, cacheVars, regVars>>

\* the POST settles: transcribeAndExtract returns and main pushes the sample
MainResume ==
    /\ pc = "await"
    /\ \E outcome \in RemoteOutcomes :
         LET row == annotations[idx + 1]
             result == transcribeAndExtract(outcome)
         IN  /\ yTrue' = Append(yTrue, row.ground_truth)
             /\ yPred' = Append(yPred, result.items)
             /\ predictions' = Append(predictions, PredictionOf(row, result))
             /\ lastOutcome' = outcome.kind
             /\ idx' = NextIdx(idx, outcome.kind)
             /\ pc' = ResumeAt(outcome.kind)
    /\ inflight' = inflight - 1
    /\ UNCHANGED <<annotationRows, media, annotations, requests, files,
                   metrics, foodTable, exitCode, thrown>>
    /\ UNCHANGED <<csvOpens, csvColumns, metVars, csvVars, loadVars, apiVars,
                 mergeVars, cacheVars, regVars>>

\* after the loop: build the table and fs.writeFileSync(PREDICTIONS_FILE, ...);
\* a throw in the row template rejects main, and the catch of main().catch
\* calls process.exit(1)
MainSave ==
    /\ pc = "loop"
    /\ LoopOver
    /\ IF \E i \in 1..Len(predictions) : RowThrows(predictions[i])
       THEN /\ pc' = "exit1"
            /\ exitCode' = 1
            /\ thrown' = "row"
            /\ UNCHANGED files
       ELSE /\ pc' = "metrics"
            /\ files' = (PREDICTIONS_FILE :> PredCsv(predictions)) @@ files
            /\ UNCHANGED <<exitCode, thrown>>
    /\ UNCHANGED <<annotationRows, media, annotations, idx, yTrue, yPred,
                   predictions, inflight, requests, lastOutcome, metrics,
                   foodTable>>
    /\ UNCHANGED <<csvOpens, csvColumns, metVars, csvVars, loadVars, apiVars,
                 mergeVars, cacheVars, regVars>>

\* fs.writeFileSync(PREDICTIONS_FILE, ...) throws (the path cannot be
\* written): main rejects, process.exit(1)
MainSaveFails ==
    /\ pc = "loop"
    /\ LoopOver
    /\ \A i \in 1..Len(predictions) : ~RowThrows(predictions[i])
    /\ pc' = "exit1"
    /\ exitCode' = 1
    /\ thrown' = "write"
    /\ UNCHANGED <<annotationRows, media, annotations, idx, yTrue, yPred,
                   predictions, inflight, requests, lastOutcome, files, metrics,
                   foodTable>>
    /\ UNCHANGED <<csvOpens, csvColumns, metVars, csvVars, loadVars, apiVars,
                 mergeVars, cacheVars, regVars>>

\* computeMetrics, the printed summary, perFoodTable and console.table
MainMetrics ==
    /\ pc = "metrics"
    /\ LET m == computeMetrics(yTrue, yPred, FOOD_VOCAB)
       IN  /\ metrics' = Returned(m)
           /\ foodTable' = Returned(perFoodTable(m.trueMatrix, m.predMatrix,
                                                 FOOD_VOCAB))
    /\ pc' = "chart"
    /\ UNCHANGED <<annotationRows, media, annotations, idx, yTrue, yPred,
                   predictions, inflight, requests, lastOutcome, files,
                   exitCode, thrown>>
    /\ UNCHANGED <<csvOpens, csvColumns, metVars, csvVars, loadVars, apiVars,
                 mergeVars, cacheVars, regVars>>

\* await generateChart(metrics): the image is rendered and written, main
\* logs the duration and returns
MainChart ==
    /\ pc = "chart"
    /\ files' = (CHART_FILE :> <<"p", "n", "g">>) @@ files
    /\ pc' = "done"
    /\ UNCHANGED <<annotationRows, media, annotations, idx, yTrue, yPred,
                   predictions, inflight, requests, lastOutcome, metrics,
                   foodTable, exitCode, thrown>>
    /\ UNCHANGED <<csvOpens, csvColumns, metVars, csvVars, loadVars, apiVars,
                 mergeVars, cacheVars, regVars>>

\* renderToBuffer or writeFileSync throws: main rejects, process.exit(1)
MainChartFails ==
    /\ pc = "chart"
    /\ pc' = "exit1"
    /\ exitCode' = 1
    /\ thrown' = "chart"
    /\ UNCHANGED <<annotationRows, media, annotations, idx, yTrue, yPred,
                   predictions, inflight, requests, lastOutcome, files, metrics,
                   foodTable>>
    /\ UNCHANGED <<csvOpens, csvColumns, metVars, csvVars, loadVars, apiVars,
                 mergeVars, cacheVars, regVars>>

Next ==
    \/ MainLoad
    \/ MainSkip
    \/ MainSend
    \/ MainResume
    \/ MainSave
    \/ MainSaveFails
    \/ MainMetrics
    \/ MainChart
    \/ MainChartFails

Spec == Init /\ [][Next]_vars

\* main has not ended: it has a continuation to run or waits for its POST
Running == pc \in {"load", "loop", "await", "metrics", "chart"}

\* a step of main as seen on its control point and its loop index: every
\* action of Next changes pc or idx, and one of them is possible whenever
\* main is Running
Advance ==
    /\ Running
    /\ pc' \in {"load", "loop", "await", "metrics", "chart", "done", "exit1",
                "crash"}
    /\ idx' \in {idx, idx + 1}

\* the same run when the event loop keeps going: a continuation that is
\* ready is run, and every POST settles (axios rejects it after 180 s at the
\* latest), so main does not stay for ever where it can go on.  The files
\* are those whose ground-truth cells all read 'apple'.
FairInit ==
    /\ Init
    /\ \A i \in 1..Len(annotationRows) : annotationRows[i].ground_truth = apple

FairSpec == FairInit /\ [][Next]_vars /\ WF_<<pc, idx>>(Advance)

(***************************************************************************)
(* The metrics engine on its own: computeMetrics and perFoodTable applied  *)
(* to label lists over a vocabulary, and called again after the samples    *)
(* were reordered (ground truth and predictions alike).                    *)
(***************************************************************************)
kiwi == <<"k", "i", "w", "i">>

LabelLists == {<<>>, <<apple>>, <<banana>>, <<apple, kiwi>>}

Vocabularies == {<<>>, <<apple, banana>>, FOOD_VOCAB}

MetInit ==
    /\ \E n \in 0..MaxSamples :
          /\ mTrue \in [1..n -> LabelLists]
          /\ mPred \in [1..n -> LabelLists]
    /\ mVocab \in Vocabularies
    /\ mOut = NotYet /\ mTable = NotYet
    /\ mBase = NotYet /\ mBaseTable = NotYet
    /\ RunIdle /\ CsvIdle /\ LoadIdle /\ ApiIdle
    /\ MergeIdle /\ CacheIdle /\ RegIdle

\* metrics = computeMetrics(yTrue, yPred, vocab)
MetCompute ==
    /\ ~mOut.called
    /\ mOut' = Returned(computeMetrics(mTrue, mPred, mVocab))
    /\ mBase' = IF mBase.called THEN mBase ELSE mOut'
    /\ UNCHANGED <<mTrue, mPred, mVocab, mTable, mBaseTable>>
    /\ UNCHANGED <<runVars, csvVars, loadVars, apiVars, mergeVars, cacheVars, regVars>>

\* foodTable = perFoodTable(metrics.trueMatrix, metrics.predMatrix, vocab)
MetTable ==
    /\ mOut.called
    /\ ~mTable.called
    /\ mTable' = Returned(perFoodTable(mOut.out.trueMatrix,
                                       mOut.out.predMatrix, mVocab))
    /\ mBaseTable' = IF mBaseTable.called THEN mBaseTable ELSE mTable'
    /\ UNCHANGED <<mTrue, mPred, mVocab, mOut, mBase>>
    /\ UNCHANGED <<runVars, csvVars, loadVars, apiVars, mergeVars, cacheVars, regVars>>

\* s with the entries at i and j exchanged
Swap(s, i, j) ==
    [k \in 1..Len(s) |-> IF k = i THEN s[j] ELSE IF k = j THEN s[i] ELSE s[k]]

\* the same samples in another order, for another evaluation
MetPermute ==
    /\ mTable.called
    /\ \E i \in 1..Len(mTrue) : \E j \in (i+1)..Len(mTrue) :
          /\ mTrue' = Swap(mTrue, i, j)
          /\ mPred' = Swap(mPred, i, j)
    /\ mOut' = NotYet
    /\ mTable' = NotYet
    /\ UNCHANGED <<mVocab, mBase, mBaseTable>>
    /\ UNCHANGED <<runVars, csvVars, loadVars, apiVars, mergeVars, cacheVars, regVars>>

MetNext ==
    \/ MetCompute
    \/ MetTable
    \/ MetPermute

MetricsSpec == MetInit /\ [][MetNext]_vars

(***************************************************************************)
(* The predictions table read back.  A sample is an annotation as          *)
(* loadAnnotations returns it and a result as transcribeAndExtract returns *)
(* it for a well-formed 2xx body; its row is written as main writes it and *)
(* read as a reader of quoted CSV (RFC 4180) reads it: fields separated by *)
(* commas, records by line breaks, a field in double quotes may hold       *)
(* commas, line breaks and doubled double quotes.                          *)
(***************************************************************************)
\* characters of the texts: a letter, the delimiter, the quote, a line break
CsvChars == {"a", ",", "\"", "\n"}

\* transcripts: every text of at most two of these characters
CsvTranscripts ==
    UNION {[1..n -> CsvChars] : n \in 0..2}

\* audio_id values
CsvIds == {a1, <<"a", ",", "1">>, <<"a", "\"">>}

\* ground_truth cells: 'a', 'a,b', 'a"'
CsvCells == {<<"a">>, <<"a", ",", "b">>, <<"a", "\"">>}

\* names of extracted items: 'a', 'A"', 'a,b', and 'a' a line break 'b'
CsvNames == {<<"a">>, <<"A", "\"">>, <<"a", ",", "b">>, <<"a", "\n", "b">>}

CsvItemLists == UNION {[1..n -> {JItem(JStr(nm)) : nm \in CsvNames}] : n \in 0..2}

CsvSamples ==
    { [row |-> loadAnnotations(<<[audio_id |-> id, ground_truth |-> cell]>>)[1],
       result |-> transcribeAndExtract(
                     [kind |-> "ok", data |-> JBody(JStr(t), JArr(items))])] :
        id \in CsvIds, cell \in CsvCells, t \in CsvTranscripts,
        items \in CsvItemLists }

\* the reader: mode is start (at the start of a field), plain (in a field
\* without quotes), quoted (in a quoted field) or closing (after a quote
\* met in a quoted field)
RECURSIVE CsvRead(_, _, _, _, _, _)
CsvRead(text, i, mode, fld, rec, recs) ==
    IF i > Len(text)
    THEN (IF mode = "start" /\ rec = <<>> THEN recs
          ELSE Append(recs, Append(rec, fld)))
    ELSE LET c == text[i] IN
         IF mode = "quoted"
         THEN (IF c = "\""
               THEN CsvRead(text, i + 1, "closing", fld, rec, recs)
               ELSE CsvRead(text, i + 1, "quoted", Append(fld, c), rec, recs))
         ELSE IF c = "\"" /\ mode = "start"
         THEN CsvRead(text, i + 1, "quoted", fld, rec, recs)
         ELSE IF c = "\"" /\ mode = "closing"
         THEN CsvRead(text, i + 1, "quoted", Append(fld, c), rec, recs)
         ELSE IF c = ","
         THEN CsvRead(text, i + 1, "start", <<>>, Append(rec, fld), recs)
         ELSE IF c = "\n"
         THEN CsvRead(text, i + 1, "start", <<>>, <<>>,
                      Append(recs, Append(rec, fld)))
         ELSE CsvRead(text, i + 1, "plain", Append(fld, c), rec, recs)

\* the records of a text, each a sequence of fields
ParseCsv(text) == CsvRead(text, 1, "start", <<>>, <<>>, <<>>)

\* the labels of a comma-joined field
FieldLabels(fld) ==
    IF Len(fld) = 0 THEN {}
    ELSE {split(fld, ",")[k] : k \in 1..Len(split(fld, ","))}

CsvInit ==
    /\ cRecord \in {Returned(x) : x \in CsvSamples}
    /\ cRow = NotYet
    /\ cParsed = NotYet
    /\ RunIdle /\ MetIdle /\ LoadIdle /\ ApiIdle
    /\ MergeIdle /\ CacheIdle /\ RegIdle

\* the row of the sample, as the template of main builds it
CsvWriteRow ==
    /\ ~cRow.called
    /\ cRow' = Returned(PredRow(PredictionOf(cRecord.out.row, cRecord.out.result)))
    /\ UNCHANGED <<cRecord, cParsed>>
    /\ UNCHANGED <<runVars, metVars, loadVars, apiVars, mergeVars, cacheVars, regVars>>

\* the row read back
CsvReadRow ==
    /\ cRow.called
    /\ ~cParsed.called
    /\ cParsed' = Returned(ParseCsv(cRow.out))
    /\ UNCHANGED <<cRecord, cRow>>
    /\ UNCHANGED <<runVars, metVars, loadVars, apiVars, mergeVars, cacheVars, regVars>>

CsvNext ==
    \/ CsvWriteRow
    \/ CsvReadRow

CsvSpec == CsvInit /\ [][CsvNext]_vars

(***************************************************************************)
(* loadAnnotations on its own, event by event: the read stream is opened,  *)
(* csv-parser emits one 'data' event per row of the table, then 'end'.     *)
(* .on('error', reject) listens on the csv() stream only; csv-parser with  *)
(* its default options emits no 'error', and pipe() forwards none.         *)
(***************************************************************************)
\* ground_truth cells: '', ' Banana,apple' and 'rice, '
LoadCells ==
    {<<>>, <<" ">> \o <<"B">> \o Tail(banana) \o <<",">> \o apple,
     rice \o <<",", " ">>}

LoadRows == [audio_id : SampleIds, ground_truth : LoadCells]

LoadFiles ==
    [opens : BOOLEAN, columns : SUBSET RequiredColumns,
     rows : UNION {[1..n -> LoadRows] : n \in 0..MaxAnn}]

Pending == [state |-> "pending"]
Resolved(v) == [state |-> "resolved", value |-> v]

\* loadAnnotations(csvPath) was called: the streams are built, the promise
\* is pending
LoadInit ==
    /\ lFile \in LoadFiles
    /\ lEmitted = 0
    /\ results = <<>>
    /\ lPromise = Pending
    /\ lUncaught = FALSE
    /\ RunIdle /\ MetIdle /\ CsvIdle /\ ApiIdle
    /\ MergeIdle /\ CacheIdle /\ RegIdle

\* the streams still run
Streaming == lPromise = Pending /\ ~lUncaught

\* the file cannot be opened: the read stream emits 'error', nothing
\* listens to it, and the error is thrown at the top of the process
LoadOpenFails ==
    /\ Streaming
    /\ ~lFile.opens
    /\ lUncaught' = TRUE
    /\ UNCHANGED <<lFile, lEmitted, results, lPromise>>
    /\ UNCHANGED <<runVars, metVars, csvVars, apiVars, mergeVars, cacheVars, regVars>>

\* .on('data', (row) => { ... }) for the next row of the table
LoadData ==
    /\ Streaming
    /\ lFile.opens
    /\ lEmitted < Len(lFile.rows)
    /\ LET row == RowObjects(lFile.rows, lFile.columns)[lEmitted + 1]
       IN  IF "ground_truth" \notin lFile.columns
           THEN /\ lUncaught' = TRUE
                /\ UNCHANGED <<lEmitted, results>>
           ELSE /\ results' = Append(results,
                                     [audio_id |-> row.audio_id,
                                      ground_truth |->
                                          GroundTruthItems(row.ground_truth)])
                /\ lEmitted' = lEmitted + 1
                /\ UNCHANGED lUncaught
    /\ UNCHANGED <<lFile, lPromise>>
    /\ UNCHANGED <<runVars, metVars, csvVars, apiVars, mergeVars, cacheVars, regVars>>

\* .on('end', () => resolve(results))
LoadEnd ==
    /\ Streaming
    /\ lFile.opens
    /\ lEmitted = Len(lFile.rows)
    /\ lPromise' = Resolved(results)
    /\ UNCHANGED <<lFile, lEmitted, results, lUncaught>>
    /\ UNCHANGED <<runVars, metVars, csvVars, apiVars, mergeVars, cacheVars, regVars>>

LoadNext ==
    \/ LoadOpenFails
    \/ LoadData
    \/ LoadEnd

LoadSpec == LoadInit /\ [][LoadNext]_vars

\* the call seen as one step, as main awaits it, is the call seen event by
\* event
LoadAgrees ==
    /\ lUncaught => LoadEnds(lFile.opens, lFile.rows, lFile.columns) = "crash"
    /\ lPromise.state = "resolved" =>
          /\ LoadEnds(lFile.opens, lFile.rows, lFile.columns) = "resolved"
          /\ lPromise.value
                = loadAnnotations(RowObjects(lFile.rows, lFile.columns))

(***************************************************************************)
(* The backend: one HTTP request through the routers of the meal and the   *)
(* analysis endpoints.  A router entry is the list of functions Express    *)
(* calls in order; for the POST routes that list is the multer upload and  *)
(* the handler, for the GET routes the handler alone.                      *)
(***************************************************************************)
\* Number.isFinite is false of NaN, null and undefined
JNaN == [type |-> "NaN"]
IsFinite(g) == g.type = "number"
\* Number(v)
Number(v) ==
    CASE v.type = "number" -> v
      [] v.type = "null" -> JNum(0)
      [] OTHER -> JNaN
\* an entry of an item list: {name, grams}
JFood(name, grams) == [type |-> "object", name |-> name, grams |-> grams]
\* !it?.name is false
HasName(it) == it.type = "object" /\ Truthy(it.name)

normalize(name) == trim(toLowerCase(name))

\* a Map as the sequence of its entries in insertion order; set on a key
\* the map holds replaces the value where the key stands
MapGet(map, key) == {i \in 1..Len(map) : map[i].key = key}
MapSetAppends(map, key, value) ==
    Append(map, [key |-> key, value |-> value])
MapSet(map, key, value) ==
    IF MapGet(map, key) = {}
    THEN Append(map, [key |-> key, value |-> value])
    ELSE [i \in 1..Len(map) |->
            IF map[i].key = key THEN [key |-> key, value |-> value]
            ELSE map[i]]

\* x ?? [] of a list that is null, undefined or an array
OrEmpty(x) == IF x.type = "array" THEN x.elems ELSE <<>>

RECURSIVE ImageLoop(_, _, _)
ImageLoop(map, items, i) ==
    IF i > Len(items) THEN map
    ELSE IF ~HasName(items[i]) THEN ImageLoop(map, items, i + 1)
    ELSE ImageLoop(
            MapSet(map, normalize(items[i].name.str),
                   [name |-> items[i].name.str,
                    grams |-> IF IsFinite(items[i].grams)
                              THEN items[i].grams ELSE JNull,
                    source |-> "image"]),
            items, i + 1)

RECURSIVE AudioLoop(_, _, _)
AudioLoop(map, items, i) ==
    IF i > Len(items) THEN map
    ELSE IF ~HasName(items[i]) THEN AudioLoop(map, items, i + 1)
    ELSE LET key == normalize(items[i].name.str)
             existing == MapGet(map, key)
             finite == IsFinite(items[i].grams)
         IN AudioLoop(
               MapSet(map, key,
                  IF existing = {}
                  THEN [name |-> items[i].name.str,
                        grams |-> IF finite THEN items[i].grams ELSE JNull,
                        source |-> "audio"]
                  ELSE [name |-> items[i].name.str,
                        grams |-> IF finite THEN items[i].grams
                                  ELSE map[CHOOSE k \in existing : TRUE]
                                          .value.grams,
                        source |-> IF finite THEN "audio" ELSE "mixed"]),
               items, i + 1)

mergeAudioAndImageItems(imageItems, audioItms) ==
    LET map == AudioLoop(ImageLoop(<<>>, OrEmpty(imageItems), 1),
                         OrEmpty(audioItms), 1)
    IN [i \in 1..Len(map) |-> map[i].value]

\* imageItems of createMeal from the items field of the body, once parsed
ImageItemsOf(parsed) ==
    LET named == SelectSeq(parsed.elems, HasName)
    IN JArr([i \in 1..Len(named) |->
                JFood(named[i].name, Number(named[i].grams))])

\* the entries computeMacrosFromDetectedItems looks up, of the items
\* prisma.analysis.create stored for the items of the ML result
StoredItem(item) ==
    JFood(IF item.label.type \in {"undefined", "null"}
          THEN JStr(<<"u","n","k","n","o","w","n">>) ELSE item.label,
          IF item.grams_est.type \in {"undefined", "null"}
          THEN JNum(0) ELSE item.grams_est)
LookedUp(it) ==
    /\ Len(trim(it.name.str)) > 0
    /\ IsFinite(Number(it.grams))
    /\ Number(it.grams).num > 0
MacroLookups(mlItems) ==
    Len(SelectSeq([i \in 1..Len(mlItems) |-> StoredItem(mlItems[i])],
                  LookedUp))

MealsRoute == "POST /meals"
AnalyzeRoute == "POST /api/analysis/analyze"
\* the router of routes/analysisRoutes.js: upload.single('image')
AnalysisRootRoute == "POST /api/analysis"
UserAnalysesRoute == "GET /api/analysis/user/:userId"
AnalysisRoute == "GET /api/analysis/:id"
AnalysisPostRoutes == {AnalyzeRoute, AnalysisRootRoute}
PostRoutes == {MealsRoute} \cup AnalysisPostRoutes
GetRoutes == {UserAnalysesRoute, AnalysisRoute}

\* the token a request carries in its cookie or Authorization header
Tokens == {"none", "invalid", "valid"}

\* the items field of the multipart body: absent, or a text JSON.parse
\* turns into a value or throws on
NoItems == [present |-> FALSE]
ItemsText(parsed) == [present |-> TRUE, parse |-> Returned(parsed)]
ItemsGarbage == [present |-> TRUE, parse |-> NotYet]
ItemsFields ==
    {NoItems, ItemsGarbage,
     ItemsText(JArr(<<JFood(JStr(apple), JNum(100)),
                      JFood(JStr(rice), JUndef)>>))}

Requests ==
    {r \in [route : PostRoutes \cup GetRoutes, jwt : Tokens,
            userId : BOOLEAN, image : BOOLEAN, audio : BOOLEAN,
            mimeOk : BOOLEAN, items : ItemsFields] :
        /\ r.route \in GetRoutes =>
              ~r.userId /\ ~r.image /\ ~r.audio /\ r.items = NoItems
        /\ r.route # MealsRoute => r.items = NoItems
        /\ (r.route \notin AnalysisPostRoutes \/ ~(r.image \/ r.audio))
              => r.mimeOk}

\* what the awaited fetch of /analyze-audio and the reading of its body do
AudioItemLists ==
    {JUndef, JArr(<<>>),
     JArr(<<JFood(JStr(<<" ">> \o <<"A">> \o Tail(apple)), JUndef)>>),
     JArr(<<JFood(JStr(banana), JNum(50)), JNull>>)}
AudioOutcomes ==
    {[kind |-> "throws"], [kind |-> "notOk"]}
        \cup {[kind |-> "ok", items |-> l] : l \in AudioItemLists}

\* what the awaited fetch of /predict does: the 30 s timer aborts it (the
\* service never answers, or not in time), it fails otherwise, or it
\* resolves with a response once the headers are there
MlItem(label, grams_est) == [label |-> label, grams_est |-> grams_est]
PredictItemLists ==
    {<<>>, <<MlItem(JStr(apple), JNum(120))>>,
     <<MlItem(JStr(rice), JUndef), MlItem(JUndef, JNum(30))>>}
\* what reading the body of the response does: it never ends, it throws,
\* or it gives the text or the parsed JSON
PredictBodies ==
    {[kind |-> "stalls"], [kind |-> "throws"]}
        \cup {[kind |-> "read", items |-> l] : l \in PredictItemLists}
PredictOutcomes ==
    {[kind |-> "abort"], [kind |-> "throws"]}
        \cup {[kind |-> "response", ok |-> ok, body |-> b] :
                ok \in BOOLEAN, b \in PredictBodies}

\* the files of the request multer stores under uploads/
FilesOf(r) ==
    (IF r.image THEN {"image"} ELSE {}) \cup (IF r.audio THEN {"audio"} ELSE {})

ApiInit ==
    /\ req \in Requests
    /\ stage = "received"
    /\ disk = {}
    /\ mlCalls = 0 /\ lookups = 0 /\ dbWrites = 0
    /\ status = 0 /\ responses = 0
    /\ audioItems = JNull
    /\ persisted = {}
    /\ unlinks = [image |-> 0, audio |-> 0]
    /\ mlResponse = NotYet
    /\ RunIdle /\ MetIdle /\ CsvIdle /\ LoadIdle
    /\ MergeIdle /\ CacheIdle /\ RegIdle

\* res.status(code).json(...)
Respond(code) ==
    /\ stage' = "done"
    /\ status' = code
    /\ responses' = responses + 1

\* an async handler whose promise rejects: Express 4 leaves the request
\* without a response (and the unhandledRejection handler closes the
\* server), Express 5 hands the error to its error handler
Rejects ==
    \/ stage' = "done" /\ status' = -1 /\ UNCHANGED responses
    \/ Respond(500)

\* multer fails and hands its Error to next, so that the handler is
\* skipped: fileFilter refuses a file, or upload.single('image') meets a
\* file in another field
UploadFails(r) ==
    \/ r.route \in AnalysisPostRoutes /\ ~r.mimeOk
    \/ r.route = AnalysisRootRoute /\ r.audio

\* req.files.image[0] and req.files.audio[0] as the handlers read them:
\* upload.single fills req.file and leaves req.files undefined
imageFile(r) == r.route # AnalysisRootRoute /\ r.image
audioFile(r) == r.route # AnalysisRootRoute /\ r.audio
HandlerFiles(r) ==
    (IF imageFile(r) THEN {"image"} ELSE {})
        \cup (IF audioFile(r) THEN {"audio"} ELSE {})

\* safeUnlink of each of the files: fs.unlink is requested and removes it
safeUnlink(paths) ==
    /\ unlinks' = [f \in DOMAIN unlinks |->
                     unlinks[f] + IF f \in paths THEN 1 ELSE 0]
    /\ disk' = disk \ paths

\* upload.fields or upload.single of the POST routes: the first function
\* of the route
Upload ==
    /\ stage = "received"
    /\ req.route \in PostRoutes
    /\ IF UploadFails(req)
       THEN /\ Respond(500)
            /\ UNCHANGED disk
       ELSE /\ disk' = FilesOf(req)
            /\ stage' = "handler"
            /\ UNCHANGED <<status, responses>>
    /\ UNCHANGED <<req, mlCalls, lookups, dbWrites, audioItems, persisted,
                   unlinks, mlResponse>>
    /\ UNCHANGED <<runVars, metVars, csvVars, loadVars, mergeVars, cacheVars, regVars>>

getUserAnalyses ==
    /\ stage = "received"
    /\ req.route = UserAnalysesRoute
    /\ Respond(501)
    /\ UNCHANGED <<req, disk, mlCalls, lookups, dbWrites, audioItems,
                   persisted, unlinks, mlResponse>>
    /\ UNCHANGED <<runVars, metVars, csvVars, loadVars, mergeVars, cacheVars, regVars>>

getAnalysis ==
    /\ stage = "received"
    /\ req.route = AnalysisRoute
    /\ Respond(501)
    /\ UNCHANGED <<req, disk, mlCalls, lookups, dbWrites, audioItems,
                   persisted, unlinks, mlResponse>>
    /\ UNCHANGED <<runVars, metVars, csvVars, loadVars, mergeVars, cacheVars, regVars>>

\* createMeal up to its first await
CreateMealBegin ==
    /\ stage = "handler"
    /\ req.route = MealsRoute
    /\ IF ~req.userId
       THEN Respond(400) /\ UNCHANGED mlCalls
       ELSE IF audioFile(req)
       THEN /\ stage' = "ml"
            /\ mlCalls' = mlCalls + 1
            /\ UNCHANGED <<status, responses>>
       ELSE /\ stage' = "merge"
            /\ UNCHANGED <<mlCalls, status, responses>>
    /\ UNCHANGED <<req, disk, lookups, dbWrites, audioItems, persisted,
                   unlinks, mlResponse>>
    /\ UNCHANGED <<runVars, metVars, csvVars, loadVars, mergeVars, cacheVars, regVars>>

\* the fetch of /analyze-audio settles
CreateMealAudio ==
    /\ stage = "ml"
    /\ req.route = MealsRoute
    /\ \E outcome \in AudioOutcomes :
          audioItems' = IF outcome.kind = "ok" /\ outcome.items # JUndef
                        THEN outcome.items ELSE JNull
    /\ stage' = "merge"
    /\ UNCHANGED <<req, disk, mlCalls, lookups, dbWrites, status, responses,
                   persisted, unlinks, mlResponse>>
    /\ UNCHANGED <<runVars, metVars, csvVars, loadVars, mergeVars, cacheVars, regVars>>

\* createMeal from the parsing of the items field to its response
CreateMealFinish ==
    /\ stage = "merge"
    /\ req.route = MealsRoute
    /\ IF req.items.present /\ ~req.items.parse.called
       THEN \* JSON.parse throws
            /\ Rejects
            /\ UNCHANGED <<disk, lookups, dbWrites, persisted, unlinks>>
       ELSE LET imageItems == IF req.items.present
                              THEN ImageItemsOf(req.items.parse.out)
                              ELSE JNull
                detectedItems ==
                    mergeAudioAndImageItems(imageItems, audioItems)
            IN /\ lookups' = lookups + Len(detectedItems)
               /\ \/ \* prisma.meal.create resolves
                     /\ dbWrites' = dbWrites + 1
                     /\ persisted' = HandlerFiles(req)
                     /\ safeUnlink(HandlerFiles(req))
                     /\ Respond(201)
                  \/ \* prisma.meal.create rejects
                     /\ Rejects
                     /\ UNCHANGED <<disk, dbWrites, persisted, unlinks>>
    /\ UNCHANGED <<req, mlCalls, audioItems, mlResponse>>
    /\ UNCHANGED <<runVars, metVars, csvVars, loadVars, mergeVars, cacheVars, regVars>>

\* analyzeFood up to its first await
AnalyzeFoodBegin ==
    /\ stage = "handler"
    /\ req.route \in AnalysisPostRoutes
    /\ IF ~req.userId \/ ~imageFile(req)
       THEN /\ safeUnlink(HandlerFiles(req))
            /\ Respond(400)
            /\ UNCHANGED mlCalls
       ELSE /\ stage' = "ml"
            /\ mlCalls' = mlCalls + 1
            /\ UNCHANGED <<disk, unlinks, status, responses>>
    /\ UNCHANGED <<req, lookups, dbWrites, audioItems, persisted, mlResponse>>
    /\ UNCHANGED <<runVars, metVars, csvVars, loadVars, mergeVars, cacheVars, regVars>>

\* the status of the response when the fetch of /predict rejects
FetchFailureStatus(kind) == IF kind = "abort" THEN 504 ELSE 503

\* the fetch of /predict settles; finally clears the timer
AnalyzeFoodMl ==
    /\ stage = "ml"
    /\ req.route \in AnalysisPostRoutes
    /\ \E outcome \in PredictOutcomes :
          /\ mlResponse' = Returned(outcome)
          /\ IF outcome.kind = "response"
             THEN /\ stage' = "body"
                  /\ UNCHANGED <<disk, unlinks, status, responses>>
             ELSE /\ safeUnlink(HandlerFiles(req))
                  /\ Respond(FetchFailureStatus(outcome.kind))
    /\ UNCHANGED <<req, mlCalls, lookups, dbWrites, audioItems, persisted>>
    /\ UNCHANGED <<runVars, metVars, csvVars, loadVars, mergeVars, cacheVars, regVars>>

\* the body of the response is read, as text or as JSON; analyzeFood from
\* there to its response.  No timer runs any more: a body that never ends
\* leaves the handler at its await
AnalyzeFoodBody ==
    /\ stage = "body"
    /\ req.route \in AnalysisPostRoutes
    /\ mlResponse.out.body.kind # "stalls"
    /\ safeUnlink(HandlerFiles(req))
    /\ IF mlResponse.out.body.kind = "throws"
       THEN Respond(500) /\ UNCHANGED <<lookups, dbWrites, persisted>>
       ELSE IF ~mlResponse.out.ok
       THEN Respond(502) /\ UNCHANGED <<lookups, dbWrites, persisted>>
       ELSE \/ \* prisma.analysis.create resolves
               /\ dbWrites' = dbWrites + 1
               /\ persisted' = {"image"}
               /\ lookups' = lookups + MacroLookups(mlResponse.out.body.items)
               /\ Respond(200)
            \/ \* prisma.analysis.create rejects
               /\ Respond(500)
               /\ UNCHANGED <<lookups, dbWrites, persisted>>
    /\ UNCHANGED <<req, mlCalls, audioItems, mlResponse>>
    /\ UNCHANGED <<runVars, metVars, csvVars, loadVars, mergeVars, cacheVars, regVars>>

ApiNext ==
    \/ Upload
    \/ getUserAnalyses
    \/ getAnalysis
    \/ CreateMealBegin
    \/ CreateMealAudio
    \/ CreateMealFinish
    \/ AnalyzeFoodBegin
    \/ AnalyzeFoodMl
    \/ AnalyzeFoodBody

ApiSpec == ApiInit /\ [][ApiNext]_vars

\* the scheduling of the event loop: a function of the route that can go
\* on does, and every step of ApiNext moves stage.  The one await nothing
\* ends is the reading of a body that stalls
ApiRuns ==
    \/ stage \in {"received", "handler", "ml", "merge"}
    \/ stage = "body" /\ mlResponse.out.body.kind # "stalls"
ApiAdvance ==
    /\ ApiRuns
    /\ stage' \in {"handler", "ml", "merge", "body", "done"}
ApiFairSpec == ApiSpec /\ WF_stage(ApiAdvance)

(***************************************************************************)
(* mergeAudioAndImageItems on its own.                                     *)
(***************************************************************************)
AppleSpoken == <<" ">> \o <<"A">> \o Tail(apple)
MergeItems ==
    {JNull, JFood(JStr(<<>>), JNum(10)), JFood(JUndef, JNum(10)),
     JFood(JStr(apple), JNum(100)), JFood(JStr(AppleSpoken), JUndef),
     JFood(JStr(AppleSpoken), JNum(50)), JFood(JStr(rice), JUndef)}
\* null, with ?? [], or an array of at most MaxItems entries
MergeLists ==
    {JNull} \cup {JArr(l) : l \in UNION {[1..n -> MergeItems] : n \in 0..MaxItems}}

MergeInit ==
    /\ gImage \in MergeLists
    /\ gAudio \in MergeLists
    /\ gMerged = NotYet
    /\ RunIdle /\ MetIdle /\ CsvIdle /\ LoadIdle
    /\ ApiIdle /\ CacheIdle /\ RegIdle

MergeCall ==
    /\ ~gMerged.called
    /\ gMerged' = Returned(mergeAudioAndImageItems(gImage, gAudio))
    /\ UNCHANGED <<gImage, gAudio>>
    /\ UNCHANGED <<runVars, metVars, csvVars, loadVars, apiVars, cacheVars, regVars>>

MergeNext == MergeCall

MergeSpec == MergeInit /\ [][MergeNext]_vars

(***************************************************************************)
(* getCachedNutrition: calls of several requests, each suspended at its    *)
(* await of the OpenFoodFacts request while others run.                    *)
(***************************************************************************)
CacheNames == {apple, AppleSpoken, rice}
\* const key = foodName.toLowerCase().trim()
CacheKey(foodName) == trim(toLowerCase(foodName))
\* nutritionCache.has(key)
hasNever(cache, key) == FALSE
has(cache, key) == key \in DOMAIN cache
\* nutritionCache.set(key, nutr)
set(cache, key, nutr) ==
    [k \in DOMAIN cache \cup {key} |-> IF k = key THEN nutr ELSE cache[k]]
\* the object built from product.nutriments
Nutr(kcal) == [type |-> "object", calories |-> JNum(kcal)]
\* what the request and the reading of its body do: they throw, the
\* answer holds no product with nutriments, or it holds one
storesAlways(outcome) == TRUE
stores(outcome) == outcome.kind = "product"
LookupOutcomes ==
    {[kind |-> "throws"], [kind |-> "noProduct"]}
        \cup {[kind |-> "product", nutr |-> Nutr(kcal)] : kcal \in {52, 95}}
NutrOf(outcome) == IF outcome.kind = "product" THEN outcome.nutr ELSE JNull

CallIdle == [pc |-> "idle"]

CacheInit ==
    /\ nutritionCache = <<>>
    /\ calls = [c \in 1..MaxCalls |-> CallIdle]
    /\ fetches = 0
    /\ RunIdle /\ MetIdle /\ CsvIdle /\ LoadIdle
    /\ ApiIdle /\ MergeIdle /\ RegIdle

\* getCachedNutrition(foodName) up to its return of the cached value or to
\* its await of fetch
CacheCall(c, foodName) ==
    /\ calls[c].pc = "idle"
    /\ LET key == CacheKey(foodName)
       IN IF has(nutritionCache, key)
          THEN /\ calls' = [calls EXCEPT ![c] =
                              [pc |-> "returned", name |-> foodName,
                               fetched |-> FALSE,
                               result |-> nutritionCache[key]]]
               /\ UNCHANGED fetches
          ELSE /\ calls' = [calls EXCEPT ![c] =
                              [pc |-> "fetching", name |-> foodName]]
               /\ fetches' = fetches + 1
    /\ UNCHANGED nutritionCache
    /\ UNCHANGED <<runVars, metVars, csvVars, loadVars, apiVars, mergeVars, regVars>>

\* the request settles and its body is read; the call ends
CacheSettle(c, outcome) ==
    /\ calls[c].pc = "fetching"
    /\ LET key == CacheKey(calls[c].name)
       IN nutritionCache' = IF stores(outcome)
                            THEN set(nutritionCache, key, NutrOf(outcome))
                            ELSE nutritionCache
    /\ calls' = [calls EXCEPT ![c] =
                   [pc |-> "returned", name |-> calls[c].name,
                    fetched |-> TRUE, result |-> NutrOf(outcome)]]
    /\ UNCHANGED fetches
    /\ UNCHANGED <<runVars, metVars, csvVars, loadVars, apiVars, mergeVars, regVars>>

CacheNext ==
    \/ \E c \in 1..MaxCalls : \E foodName \in CacheNames :
          CacheCall(c, foodName)
    \/ \E c \in 1..MaxCalls : \E outcome \in LookupOutcomes :
          CacheSettle(c, outcome)

CacheSpec == CacheInit /\ [][CacheNext]_vars

(***************************************************************************)
(* register: requests handled concurrently, each suspended at its awaits   *)
(* of prisma and bcrypt while others run.                                  *)
(***************************************************************************)
Emails == {"ann@example.org", "bob@example.org"}
\* the body of a request: email is missing or one of Emails; name and
\* password are there
RegBodies == {[email |-> e] : e \in Emails \cup {""}}

\* prisma.user.findUnique({where: {email}})
findUnique(table, email) ==
    \E i \in 1..Len(table) : table[i].email = email
\* the unique index User_email_key refuses a second row for an email
UniqueIndexAdmits(table, email) == ~findUnique(table, email)

Answer(code, error, token) ==
    [pc |-> "done", status |-> code, error |-> error, token |-> token,
     cookie |-> token]

RegInit ==
    /\ users = <<>>
    /\ regs = [r \in 1..MaxRegs |-> [pc |-> "idle"]]
    /\ RunIdle /\ MetIdle /\ CsvIdle /\ LoadIdle
    /\ ApiIdle /\ MergeIdle
    /\ CacheIdle

Became(r, fields) ==
    regs' = [regs EXCEPT ![r] = [email |-> regs[r].email] @@ fields]

\* register up to its await of findUnique
RegBegin(r, body) ==
    /\ regs[r].pc = "idle"
    /\ regs' = [regs EXCEPT ![r] =
          [email |-> body.email] @@
          IF body.email = ""
          THEN Answer(400, "name, email and password are required", FALSE)
          ELSE [pc |-> "find"]]
    /\ UNCHANGED users
    /\ UNCHANGED <<runVars, metVars, csvVars, loadVars, apiVars, mergeVars,
                   cacheVars>>

\* findUnique settles (the database is up: it answers every query);
\* register up to its awaits of bcrypt and of create
RegFind(r) ==
    /\ regs[r].pc = "find"
    /\ IF findUnique(users, regs[r].email)
       THEN Became(r, Answer(400, "User already exists", FALSE))
       ELSE Became(r, [pc |-> "create"])
    /\ UNCHANGED users
    /\ UNCHANGED <<runVars, metVars, csvVars, loadVars, apiVars, mergeVars,
                   cacheVars>>

\* prisma.user.create settles; register to its response
RegCreate(r) ==
    /\ regs[r].pc = "create"
    /\ IF UniqueIndexAdmits(users, regs[r].email)
       THEN /\ users' = Append(users, [id |-> Len(users) + 1,
                                        email |-> regs[r].email])
            /\ \/ Became(r, Answer(201, "", TRUE))
               \/ \* jwt.sign throws (no JWT_SECRET): the catch answers
                  Became(r, Answer(500, "Internal server error", FALSE))
       ELSE \* create rejects: the catch answers
            /\ Became(r, Answer(500, "Internal server error", FALSE))
            /\ UNCHANGED users
    /\ UNCHANGED <<runVars, metVars, csvVars, loadVars, apiVars, mergeVars,
                   cacheVars>>

RegNext ==
    \/ \E r \in 1..MaxRegs : \E body \in RegBodies : RegBegin(r, body)
    \/ \E r \in 1..MaxRegs : RegFind(r)
    \/ \E r \in 1..MaxRegs : RegCreate(r)

RegSpec == RegInit /\ [][RegNext]_vars

(***************************************************************************)
(* Properties of a run of main.                                            *)
(***************************************************************************)
\* the annotations handled so far whose .wav file exists, in file order
KeptSoFar ==
    SelectSeq(SubSeq(annotations, 1, idx), LAMBDA r : r.audio_id \in media)

\* C1: the prediction rows are exactly the annotations whose media file
\* exists, in annotation order, and yTrue, yPred and the matrices
\* computeMetrics builds from them have one entry per such row, aligned
\* index by index; a row whose media is missing contributes to none of them.
C1_PredictionsFollowAnnotations ==
    /\ Len(predictions) = Len(KeptSoFar)
    /\ Len(yTrue) = Len(KeptSoFar)
    /\ Len(yPred) = Len(KeptSoFar)
    /\ \A i \in 1..Len(KeptSoFar) :
          /\ predictions[i].audio_id = KeptSoFar[i].audio_id
          /\ predictions[i].ground_truth = join(KeptSoFar[i].ground_truth, <<",">>)
          /\ predictions[i].predicted = join(yPred[i], <<",">>)
          /\ yTrue[i] = KeptSoFar[i].ground_truth
    /\ pc \in {"metrics", "chart", "done"} => idx = Len(annotations)
    /\ metrics.called =>
          /\ idx = Len(annotations)
          /\ Len(metrics.out.trueMatrix) = Len(KeptSoFar)
          /\ Len(metrics.out.predMatrix) = Len(KeptSoFar)
          /\ \A i \in 1..Len(KeptSoFar) :
                /\ metrics.out.trueMatrix[i]
                      = VocabRow(KeptSoFar[i].ground_truth, FOOD_VOCAB)
                /\ metrics.out.predMatrix[i] = VocabRow(yPred[i], FOOD_VOCAB)

\* three annotation rows, the media of the second one missing: rows 1 and 3
\* are in the table and the metrics were computed on two pairs
C1_Witness ==
    /\ pc = "done"
    /\ Len(annotations) = 3
    /\ annotations[1].audio_id \in media
    /\ annotations[2].audio_id \notin media
    /\ annotations[3].audio_id \in media
    /\ Len(predictions) = 2
    /\ metrics.called /\ Len(metrics.out.trueMatrix) = 2
    /\ PREDICTIONS_FILE \in DOMAIN files

C3_BodyErrorsStayInClient ==
    /\ \A i \in 1..Len(predictions) : predictions[i].transcript.type = "string"
    /\ (pc \in {"done", "exit1"} /\ thrown # "write") =>
          /\ PREDICTIONS_FILE \in DOMAIN files
          /\ metrics.called

\* C4: at most one POST is outstanding, and every POST sent before it has
\* had its result appended to yTrue, yPred and predictions.
C4_OneRequestOutstanding ==
    /\ inflight \in {0, 1}
    /\ inflight = 1 <=> pc = "await"
    /\ Len(predictions) = Len(requests) - inflight
    /\ Len(yTrue) = Len(requests) - inflight
    /\ Len(yPred) = Len(requests) - inflight
    /\ \A i \in 1..Len(requests) : \A j \in 1..Len(requests) :
          i < j => requests[i] < requests[j]

\* the second POST of a run is outstanding, the first one's result recorded
C4_Witness ==
    /\ pc = "await"
    /\ inflight = 1
    /\ Len(requests) = 2
    /\ Len(predictions) = 1

\* the number of records of a sequence that carry the given audio_id
WithId(recs, id) == Cardinality({j \in 1..Len(recs) : recs[j].audio_id = id})

\* C12 (as claimed): in every state of a run, also for a file in which
\* several rows carry the same audio_id, each prediction record has at most
\* one annotation record with the same audio_id.
C12_AtMostOneAnnotationPerPrediction ==
    \A i \in 1..Len(predictions) :
       WithId(annotations, predictions[i].audio_id) <= 1

\* C12 (amended): the loader keeps every row of the file, so a prediction
\* record has as many annotation records with its audio_id as the file has
\* rows with it: at least one, the one it was made for (the i-th prediction
\* belongs to the i-th annotation whose media exists), and exactly one when
\* no two rows of the file share an audio_id.
C12_OneAnnotationPerRowOfThatId ==
    pc \notin {"load", "crash"} =>
       /\ Len(annotations) = Len(annotationRows)
       /\ \A i \in 1..Len(predictions) :
             /\ predictions[i].audio_id = KeptSoFar[i].audio_id
             /\ WithId(annotations, predictions[i].audio_id) >= 1
             /\ WithId(annotations, predictions[i].audio_id)
                   = WithId(RowObjects(annotationRows, csvColumns),
                            predictions[i].audio_id)
             /\ (\A j \in 1..Len(annotationRows) : \A k \in 1..Len(annotationRows) :
                    j # k => annotationRows[j].audio_id # annotationRows[k].audio_id)
                => WithId(annotations, predictions[i].audio_id) = 1

\* a run ended for a file whose two rows carry the same audio_id: both rows
\* were sent and the table holds two predictions for that audio_id
C12_Witness ==
    /\ pc = "done"
    /\ Len(annotationRows) = 2
    /\ annotationRows[1].audio_id = annotationRows[2].audio_id
    /\ Len(predictions) = 2
    /\ predictions[1].audio_id = predictions[2].audio_id
    /\ WithId(annotations, predictions[1].audio_id) = 2

\* the process has ended
Ended == pc \in {"done", "exit1", "crash"}

\* the run met a run-level error: the annotation file cannot be opened, its
\* header lacks a required column, the predictions or the chart file cannot
\* be written
RunLevelError ==
    \/ ~csvOpens
    \/ csvColumns # RequiredColumns
    \/ thrown \in {"write", "chart"}

\* C13 (as claimed): a run that met a run-level error ends in the handler of
\* main().catch, which logs it and calls process.exit with a non-zero code;
\* no such run ends with exit status 0.
C13_RunErrorsReachMainHandler ==
    (Ended /\ RunLevelError) =>
       /\ pc = "exit1"
       /\ exitStatus # 0

\* C14 (as claimed): when generateChart fails, the predictions table is
\* written and the summaries are printed, and the run goes on to its end
\* without a chart instead of being aborted.
C14_ChartFailureDoesNotEndRun ==
    thrown = "chart" =>
       /\ PREDICTIONS_FILE \in DOMAIN files
       /\ metrics.called /\ foodTable.called
       /\ pc # "exit1"
       /\ exitStatus \in {-1, 0}

\* the annotations the loop has reached (the one it awaits included) whose
\* .wav file exists
Reached ==
    {i \in 1..(IF pc = "await" THEN idx + 1 ELSE idx) :
        annotations[i].audio_id \in media}

\* C15: to every annotation whose media file exists exactly one POST is
\* sent, however it ends (a failed call is recorded and never repeated), and
\* none to an annotation whose media file is missing; when the loop is over
\* this holds of all annotations.
C15_OneRequestPerPlayableAnnotation ==
    /\ {requests[k] : k \in 1..Len(requests)} = Reached
    /\ Len(requests) = Cardinality(Reached)
    /\ Len(predictions) = Len(requests) - inflight
    /\ pc \in {"metrics", "chart", "done", "exit1"} => idx = Len(annotations)

\* a run of three annotations ended, the media of the second one missing
\* and the last call failed: two POSTs were sent, to the first and the third
C15_Witness ==
    /\ pc = "done"
    /\ Len(annotations) = 3
    /\ annotations[2].audio_id \notin media
    /\ requests = <<1, 3>>
    /\ lastOutcome \in {"timeout", "network", "http"}
    /\ predictions[2].transcript = JStr(<<>>)

\* the stage after the loop: the table is built and written, the metrics are
\* computed and printed, the chart is drawn
ReportingStage == pc \in {"metrics", "chart", "done", "exit1"}

\* C16: a run whose annotation file was loaded goes through the annotations
\* one by one (idx moves by one, also when a call ends by its timeout, after
\* which main is back in the loop), reaches the reporting stage, and has
\* then handled every annotation: each was skipped for its missing media or
\* has its one prediction.
C16_LoadedRunReachesReport ==
    /\ [][/\ idx' \in {idx, idx + 1}
          /\ (pc = "await" /\ pc' # "await") =>
                (pc' = "loop" /\ idx' = idx + 1 /\ thrown' = "none")]_vars
    /\ [](ReportingStage =>
             /\ idx = Len(annotations)
             /\ Len(predictions)
                   = Cardinality({i \in 1..Len(annotations) :
                                     annotations[i].audio_id \in media}))
    /\ (pc \in {"loop", "await"}) ~> ReportingStage

\* the first of three calls ended by its timeout, and the run came to its
\* end with three predictions
C16_Witness ==
    /\ pc = "done"
    /\ Len(annotations) = 3
    /\ Len(predictions) = 3
    /\ predictions[1].transcript = JStr(<<>>)
    /\ predictions[3].transcript = JStr(hi)

\* C17: while the loop runs (and before it), the run has written no
\* predictions table and no chart and has computed and printed no metrics;
\* whatever of these exists, the last annotation was handled before it.
C17_NoArtefactBeforeLoopEnds ==
    /\ pc \in {"load", "loop", "await"} =>
          /\ DOMAIN files = {}
          /\ ~metrics.called /\ ~foodTable.called
    /\ (DOMAIN files # {} \/ metrics.called \/ foodTable.called) =>
          /\ idx = Len(annotations)
          /\ inflight = 0

\* the loop waits for the third call, two predictions are held in memory,
\* and nothing was written
C17_Witness ==
    /\ pc = "await"
    /\ idx = 2
    /\ Len(predictions) = 2
    /\ DOMAIN files = {}
    /\ ~metrics.called

(***************************************************************************)
(* Properties of loadAnnotations.                                          *)
(***************************************************************************)
\* the tokens of a cell: split on ',', each trimmed and lower-cased, those
\* that are empty then left out
TokensKept(cell) ==
    LET tokens == split(cell, ",")
        clean == [k \in 1..Len(tokens) |-> toLowerCase(trim(tokens[k]))]
    IN  SelectSeq(clean, LAMBDA t : t # <<>>)

\* C11 (as claimed): the records loadAnnotations resolves with are one per
\* row, in the order of the rows, and the labels of a record are the tokens
\* of its cell split on ',', trimmed and lower-cased, without the tokens that
\* are empty after trimming; an empty cell gives no label.
C11_LabelsAreNonEmptyTokens ==
    lPromise.state = "resolved" =>
       /\ Len(lPromise.value) = Len(lFile.rows)
       /\ \A i \in 1..Len(lFile.rows) :
             /\ lPromise.value[i].ground_truth
                   = TokensKept(lFile.rows[i].ground_truth)
             /\ lFile.rows[i].ground_truth = <<>>
                   => lPromise.value[i].ground_truth = <<>>

\* the call has come to its end: the promise is settled or the process died
LoadOver == lPromise.state # "pending" \/ lUncaught

\* C19 (as claimed): when the file cannot be opened, or the header lacks
\* audio_id or ground_truth, the call ends with its promise rejected: it
\* neither resolves with records nor stays pending.
C19_LoadFailureRejects ==
    (LoadOver /\ (~lFile.opens \/ lFile.columns # RequiredColumns)) =>
       /\ lPromise.state = "rejected"
       /\ ~lUncaught

(***************************************************************************)
(* Properties of the metrics engine.                                       *)
(***************************************************************************)
\* the labels of a list, as a set
LabelSet(list) == {list[k] : k \in 1..Len(list)}

\* the number of (sample, vocabulary entry) cells with the given bits
Cells(pred, truth) ==
    Cardinality({c \in (1..Len(mTrue)) \X (1..Len(mVocab)) :
                    /\ (mVocab[c[2]] \in LabelSet(mPred[c[1]])) = pred
                    /\ (mVocab[c[2]] \in LabelSet(mTrue[c[1]])) = truth})

\* the ratio q is num / den, with 1 for a denominator of 0
IsRatio(q, num, den) ==
    /\ q[2] > 0
    /\ q[1] * (IF den = 0 THEN 1 ELSE den) = num * q[2]

\* C5: TP, FP, FN, TN are the numbers of cells with (pred, truth) =
\* (1,1), (1,0), (0,1), (0,0), their sum is N times V, and for the vocabulary
\* {apple, banana}, truth [{apple},{banana}], predicted [{apple},{apple}]
\* all four are 1 and precision = recall = f1 = accuracy = 1/2.
C5_ConfusionCountsAreCellCounts ==
    mOut.called =>
       /\ mOut.out.TP = Cells(TRUE, TRUE)
       /\ mOut.out.FP = Cells(TRUE, FALSE)
       /\ mOut.out.FN = Cells(FALSE, TRUE)
       /\ mOut.out.TN = Cells(FALSE, FALSE)
       /\ mOut.out.TP + mOut.out.FP + mOut.out.FN + mOut.out.TN
             = Len(mTrue) * Len(mVocab)
       /\ (/\ mVocab = <<apple, banana>>
           /\ mTrue = <<(<<apple>>), (<<banana>>)>>
           /\ mPred = <<(<<apple>>), (<<apple>>)>>)
          => /\ mOut.out.TP = 1 /\ mOut.out.FP = 1
             /\ mOut.out.FN = 1 /\ mOut.out.TN = 1
             /\ mOut.out.precision = FHalf /\ mOut.out.recall = FHalf
             /\ mOut.out.f1 = FHalf /\ mOut.out.accuracy = FHalf

\* computeMetrics returned for the scenario of the two samples
C5_Witness ==
    /\ mOut.called
    /\ mVocab = <<apple, banana>>
    /\ mTrue = <<(<<apple>>), (<<banana>>)>>
    /\ mPred = <<(<<apple>>), (<<apple>>)>>
    /\ mOut.out.TP = 1 /\ mOut.out.TN = 1

\* a ratio between 0 and 1, not NaN
InUnit(q) == q[2] > 0 /\ 0 <= q[1] /\ q[1] <= q[2]

\* C6: precision, recall, f1 and accuracy lie in [0, 1] for all inputs, each
\* being its quotient with a denominator of zero replaced by 1.
C6_MetricsInUnitInterval ==
    mOut.called =>
       LET m == mOut.out IN
       /\ InUnit(m.precision) /\ InUnit(m.recall)
       /\ InUnit(m.f1) /\ InUnit(m.accuracy)
       /\ IsRatio(m.precision, m.TP, m.TP + m.FP)
       /\ IsRatio(m.recall, m.TP, m.TP + m.FN)
       /\ IsRatio(m.accuracy, m.TP + m.TN, m.TP + m.TN + m.FP + m.FN)
       /\ IF m.precision[1] = 0 /\ m.recall[1] = 0
          THEN m.f1 = FZero
          ELSE m.f1[1] * (m.precision[1] * m.recall[2]
                            + m.recall[1] * m.precision[2])
                  = 2 * m.precision[1] * m.recall[1] * m.f1[2]

\* computeMetrics returned for samples with labels outside the vocabulary and
\* no true positive (every denominator but the one of accuracy is zero or
\* the numerator is), and it returned for zero samples
C6_Witness ==
    /\ mOut.called
    /\ mOut.out.TP + mOut.out.FP = 0
    /\ mOut.out.precision = FZero
    /\ mOut.out.f1 = FZero
    /\ \/ Len(mTrue) = 0
       \/ \E j \in 1..Len(mPred) : kiwi \in LabelSet(mPred[j])

\* the entries of the vocabulary no ground-truth list and no predicted list holds
UnusedEntries ==
    {i \in 1..Len(mVocab) :
        /\ \A j \in 1..Len(mTrue) : mVocab[i] \notin LabelSet(mTrue[j])
        /\ \A j \in 1..Len(mPred) : mVocab[i] \notin LabelSet(mPred[j])}

ZeroFixed3 == <<"0", ".", "0", "0", "0">>

Aggregate(m) ==
    <<m.TP, m.FP, m.FN, m.TN, m.precision, m.recall, m.f1, m.accuracy>>

\* C8: after the samples were reordered (yTrue and yPred alike),
\* computeMetrics returns the same counts and ratios as for the first order
\* and perFoodTable the same per-class records.
C8_OrderOfSamplesIrrelevant ==
    /\ (mOut.called /\ mBase.called)
          => Aggregate(mOut.out) = Aggregate(mBase.out)
    /\ (mTable.called /\ mBaseTable.called) => mTable.out = mBaseTable.out

\* both functions returned for an order of the samples under which the
\* matrices differ from those of the first order
C8_Witness ==
    /\ mOut.called /\ mBase.called
    /\ mTable.called /\ mBaseTable.called
    /\ mOut.out.trueMatrix # mBase.out.trueMatrix
    /\ mOut.out.predMatrix # mBase.out.predMatrix
    /\ mOut.out.TP > 0 /\ mOut.out.FP > 0

\* the number of samples whose cell in column i has the given bits
ColumnCells(i, pred, truth) ==
    Cardinality({j \in 1..Len(mTrue) :
                    /\ (mVocab[i] \in LabelSet(mPred[j])) = pred
                    /\ (mVocab[i] \in LabelSet(mTrue[j])) = truth})

\* the three ratios of column i as <<numerator, denominator>>, a zero
\* denominator replaced by 1; f1 = 2pr/(p+r) is 2TP/(2TP+FP+FN), and 0 when
\* TP is 0
ColumnRatios(i) ==
    LET TP == ColumnCells(i, TRUE, TRUE)
        FP == ColumnCells(i, TRUE, FALSE)
        FN == ColumnCells(i, FALSE, TRUE)
    IN  [precision |-> <<TP, IF TP + FP = 0 THEN 1 ELSE TP + FP>>,
         recall |-> <<TP, IF TP + FN = 0 THEN 1 ELSE TP + FN>>,
         f1 |-> <<2 * TP, IF TP = 0 THEN 1 ELSE 2 * TP + FP + FN>>]

\* C18 (as claimed): one record per vocabulary entry, in vocabulary order,
\* with TP, FP, FN the counts of its column and precision, recall and f1 the
\* ratios of those counts.
C18_PerClassRecordsHoldRatios ==
    mTable.called =>
       /\ Len(mTable.out) = Len(mVocab)
       /\ \A i \in 1..Len(mVocab) :
             /\ mTable.out[i].food = mVocab[i]
             /\ mTable.out[i].TP = ColumnCells(i, TRUE, TRUE)
             /\ mTable.out[i].FP = ColumnCells(i, TRUE, FALSE)
             /\ mTable.out[i].FN = ColumnCells(i, FALSE, TRUE)
             /\ mTable.out[i].precision
                   = JNum(Frac(ColumnRatios(i).precision[1],
                               ColumnRatios(i).precision[2]))
             /\ mTable.out[i].recall
                   = JNum(Frac(ColumnRatios(i).recall[1],
                               ColumnRatios(i).recall[2]))
             /\ mTable.out[i].f1
                   = JNum(Frac(ColumnRatios(i).f1[1], ColumnRatios(i).f1[2]))

\* the digit a character stands for
DigitOf(c) == CHOOSE k \in 0..9 : Digits[k + 1] = c

\* v is a string 'd.ddd' and the number it reads is the multiple of 1/1000
\* nearest to q[1] / q[2]
IsFixed3Of(v, q) ==
    /\ v.type = "string"
    /\ Len(v.str) = 5
    /\ v.str[2] = "."
    /\ \A k \in {1, 3, 4, 5} : \E d \in 1..10 : Digits[d] = v.str[k]
    /\ LET m == 1000 * DigitOf(v.str[1]) + 100 * DigitOf(v.str[3])
                + 10 * DigitOf(v.str[4]) + DigitOf(v.str[5])
           diff == m * q[2] - 1000 * q[1]
       IN  /\ 2 * diff <= q[2]
           /\ -2 * diff < q[2]

\* C18 (amended): one record per vocabulary entry, in vocabulary order, with
\* TP, FP, FN the counts of its column; precision, recall and f1 are strings,
\* each the toFixed(3) text of the ratio of those counts (a zero denominator
\* replaced by 1): the three-decimal number nearest to the ratio.
C18_PerClassRecordsHoldFixed3 ==
    mTable.called =>
       /\ Len(mTable.out) = Len(mVocab)
       /\ \A i \in 1..Len(mVocab) :
             /\ mTable.out[i].food = mVocab[i]
             /\ mTable.out[i].TP = ColumnCells(i, TRUE, TRUE)
             /\ mTable.out[i].FP = ColumnCells(i, TRUE, FALSE)
             /\ mTable.out[i].FN = ColumnCells(i, FALSE, TRUE)
             /\ IsFixed3Of(mTable.out[i].precision, ColumnRatios(i).precision)
             /\ IsFixed3Of(mTable.out[i].recall, ColumnRatios(i).recall)
             /\ IsFixed3Of(mTable.out[i].f1, ColumnRatios(i).f1)

\* perFoodTable returned for the vocabulary <<apple, banana>> and two
\* samples, apple a true positive in one and a false positive in the other:
\* the record of apple reads precision '0.500', recall '1.000', f1 '0.667'
C18_Witness ==
    /\ mTable.called
    /\ mVocab = <<apple, banana>>
    /\ Len(mTable.out) = 2
    /\ mTable.out[1].food = apple
    /\ mTable.out[1].TP = 1 /\ mTable.out[1].FP = 1 /\ mTable.out[1].FN = 0
    /\ mTable.out[1].precision = JStr(<<"0", ".", "5", "0", "0">>)
    /\ mTable.out[1].recall = JStr(<<"1", ".", "0", "0", "0">>)
    /\ mTable.out[1].f1 = JStr(<<"0", ".", "6", "6", "7">>)
    /\ mTable.out[2].food = banana

(***************************************************************************)
(* Properties of the predictions table.                                    *)
(***************************************************************************)
\* the row read back gives the sample: one record of four fields, the
\* audio_id, the labels of the ground truth, the predicted labels, the
\* transcript
ReadsBack(sample, recs) ==
    /\ Len(recs) = 1
    /\ Len(recs[1]) = 4
    /\ recs[1][1] = sample.row.audio_id
    /\ FieldLabels(recs[1][2])
          = {sample.row.ground_truth[k] : k \in 1..Len(sample.row.ground_truth)}
    /\ FieldLabels(recs[1][3])
          = {sample.result.items[k] : k \in 1..Len(sample.result.items)}
    /\ recs[1][4] = sample.result.transcript.str

\* C10 (as claimed): for every prediction record, also with double quotes,
\* commas or line breaks in the transcript or in the labels, the row main
\* writes, read back as quoted CSV, yields the same sampleId, the same sets
\* of ground-truth and predicted labels and the same transcript.
C10_RowReadsBack ==
    cParsed.called => ReadsBack(cRecord.out, cParsed.out)


(***************************************************************************)
(* Properties of a request to the backend.                                 *)
(***************************************************************************)
Authenticated == req.jwt = "valid"
HandlerEffects == mlCalls + lookups + dbWrites

\* C20: a request to a meal or an analysis endpoint that carries no valid
\* token is turned away before createMeal or analyzeFood runs: the handler
\* is never past its first await for it, it is never answered 200 or 201,
\* and it causes no call of the ML service, no nutrition lookup and no
\* database write.
C20_UnauthenticatedIsRejected ==
    ~Authenticated =>
        /\ HandlerEffects = 0
        /\ stage \notin {"ml", "merge", "body"}
        /\ status \notin {200, 201}


\* C21: after a successful createMeal or analyzeFood, each file whose URL
\* the created Meal or Analysis record holds still exists under uploads/.
C21_PersistedUrlsReferToFiles ==
    status \in {200, 201} => persisted \subseteq disk

\* analyzeFood runs for the request, and has run to its first await
AnalyzeRuns ==
    /\ req.route \in AnalysisPostRoutes
    /\ ~UploadFails(req)
    /\ stage \notin {"received", "handler"}
Settled(kind) == mlResponse.called /\ mlResponse.out.kind = kind
AnsweredNotOk == Settled("response") /\ ~mlResponse.out.ok

\* C23: a request to analyzeFood with a userId and an image sends exactly
\* one request to the ML service; the response is 504 when the timer
\* aborts the call, 503 on another transport failure, 502 when the service
\* answers non-2xx, 200 only after the Analysis was created; the 400, 502,
\* 503 and 504 paths create no record.
C23_StatusFollowsMlOutcome ==
    AnalyzeRuns =>
        /\ (req.userId /\ req.image) => mlCalls = 1
        /\ stage = "done" =>
              /\ Settled("abort") => status = 504
              /\ Settled("throws") => status = 503
              /\ AnsweredNotOk => status = 502
              /\ status = 200 => dbWrites = 1
              /\ status \in {400, 502, 503, 504} => dbWrites = 0

\* C26: when analyzeFood has answered, the deletion of each uploaded file
\* of the request was requested exactly once.
C26_EachUploadUnlinkedOnce ==
    (req.route \in AnalysisPostRoutes /\ ~UploadFails(req)
        /\ stage = "done") =>
        \A f \in DOMAIN unlinks :
            unlinks[f] = IF f \in FilesOf(req) THEN 1 ELSE 0

\* C28: a createMeal request that has ended got exactly one response: 400
\* when userId is missing, 201 on success, an error status otherwise; the
\* handler never ends with a rejected promise and no response.
C28_CreateMealAlwaysResponds ==
    (req.route = MealsRoute /\ stage = "done") =>
        /\ responses = 1
        /\ status \in {400, 201, 500}
        /\ status = 400 <=> ~req.userId
        /\ status = 201 => dbWrites = 1

\* C27: a request analyzeFood has sent to the ML service for is eventually
\* answered, exactly once, also when the service never answers or stalls
\* while its body is read.
C27_AnalyzeFoodEventuallyResponds ==
    (req.route \in AnalysisPostRoutes /\ stage = "ml")
        ~> (stage = "done" /\ responses = 1)

(***************************************************************************)
(* Properties of mergeAudioAndImageItems.                                  *)
(***************************************************************************)
\* the entries of a list that have a name, and the normalized names
NamedIn(list) == SelectSeq(OrEmpty(list), HasName)
KeysIn(list) ==
    {normalize(NamedIn(list)[i].name.str) : i \in 1..Len(NamedIn(list))}
KeyOf(item) == normalize(item.name)
\* the last entry of the list with that normalized name
LastIn(list, key) ==
    LET named == NamedIn(list)
        at == {i \in 1..Len(named) : normalize(named[i].name.str) = key}
    IN named[CHOOSE i \in at : \A j \in at : j <= i]

\* C24: mergeAudioAndImageItems returns exactly one item for each distinct
\* normalized name among the entries that have a name, none for an entry
\* without a name, and the names of the image list come before the names
\* only the audio list holds.
C24_OneItemPerNormalizedName ==
    gMerged.called =>
        LET out == gMerged.out
        IN /\ {KeyOf(out[i]) : i \in 1..Len(out)}
                  = KeysIn(gImage) \cup KeysIn(gAudio)
           /\ \A i \in 1..Len(out) : \A j \in 1..Len(out) :
                  KeyOf(out[i]) = KeyOf(out[j]) => i = j
           /\ \A i \in 1..Len(out) : \A j \in 1..Len(out) :
                  (KeyOf(out[i]) \notin KeysIn(gImage)
                      /\ KeyOf(out[j]) \in KeysIn(gImage)) => j < i

C24_Witness ==
    /\ gMerged.called
    /\ Len(gMerged.out) = 2
    /\ Len(NamedIn(gImage)) = 1 /\ Len(OrEmpty(gImage)) = 2
    /\ Len(NamedIn(gAudio)) = 2
    /\ KeysIn(gImage) \subseteq KeysIn(gAudio)
    /\ KeyOf(gMerged.out[1]) \in KeysIn(gImage)
    /\ KeyOf(gMerged.out[2]) \notin KeysIn(gImage)

\* C25: of a merged item, source is image exactly when only image entries
\* have its name; it is audio when only audio entries have its name or the
\* audio entry has finite grams; it is mixed only when both lists have the
\* name and the grams are those of the image entry.  The grams are the
\* audio grams when finite, else the image grams, else null.
C25_SourceAndGramsOfMergedItem ==
    gMerged.called =>
        \A i \in 1..Len(gMerged.out) :
            LET item == gMerged.out[i]
                key == KeyOf(item)
                inImage == key \in KeysIn(gImage)
                inAudio == key \in KeysIn(gAudio)
                audioFinite ==
                    inAudio /\ IsFinite(LastIn(gAudio, key).grams)
                imageFinite ==
                    inImage /\ IsFinite(LastIn(gImage, key).grams)
            IN /\ item.source = "image" <=> (inImage /\ ~inAudio)
               /\ ((inAudio /\ ~inImage) \/ audioFinite)
                     => item.source = "audio"
               /\ item.source = "mixed" =>
                     /\ inImage /\ inAudio
                     /\ item.grams = IF imageFinite
                                     THEN LastIn(gImage, key).grams
                                     ELSE JNull
               /\ item.grams =
                     IF audioFinite THEN LastIn(gAudio, key).grams
                     ELSE IF imageFinite THEN LastIn(gImage, key).grams
                     ELSE JNull

(***************************************************************************)
(* Properties of the nutrition cache.                                      *)
(***************************************************************************)
CallBegan(c) == calls[c].pc = "idle" /\ calls'[c].pc # "idle"
CallEnded(c) == calls[c].pc = "fetching" /\ calls'[c].pc = "returned"
\* a call that begins when the cache holds its key returns the entry
\* without a request
HitsReturnTheEntry ==
    \A c \in 1..MaxCalls :
        (CallBegan(c) /\ CacheKey(calls'[c].name) \in DOMAIN nutritionCache) =>
            /\ calls'[c].pc = "returned"
            /\ calls'[c].result = nutritionCache[CacheKey(calls'[c].name)]
            /\ fetches' = fetches
Kept(k) == k \in DOMAIN nutritionCache'
Same(k) == nutritionCache'[k] = nutritionCache[k]

\* C22: once the cache holds a value for a key, a later call whose name
\* normalizes to that key returns the stored value without an external
\* request, and no call removes or overwrites the entry.
C22_EntriesAreNeverOverwritten ==
    [][/\ HitsReturnTheEntry
       /\ \A k \in DOMAIN nutritionCache : Kept(k) /\ Same(k)]_vars

\* C22, amended: a call that begins when the cache holds its key returns
\* the entry as it is then, without an external request; no call removes
\* an entry; an entry is overwritten only by the end of a call for the
\* same key that had found the cache empty for it and was waiting for its
\* request.
C22_EntriesChangeOnlyByOverlappingMiss ==
    [][/\ HitsReturnTheEntry
       /\ \A k \in DOMAIN nutritionCache :
             /\ Kept(k)
             /\ ~Same(k) =>
                   \E c \in 1..MaxCalls :
                       CallEnded(c) /\ CacheKey(calls[c].name) = k]_vars

\* a call answered from the cache, and the entry overwritten since
C22_Witness ==
    \E c \in 1..MaxCalls : \E d \in 1..MaxCalls :
        /\ calls[c].pc = "returned" /\ ~calls[c].fetched
        /\ calls[d].pc = "returned" /\ calls[d].fetched
        /\ CacheKey(calls[c].name) = CacheKey(calls[d].name)
        /\ nutritionCache[CacheKey(calls[d].name)] = calls[d].result
        /\ calls[c].result # calls[d].result

\* the lookups that ended with a product, for a name and with a value
Successful(c) ==
    /\ calls[c].pc = "returned"
    /\ calls[c].fetched
    /\ calls[c].result # JNull

\* C30: under any interleaving of calls, each entry of the cache maps a
\* normalized key to the non-null result of a completed successful lookup
\* for a name that normalizes to the key; a lookup that throws or finds no
\* product returns null and leaves the cache as it is, and a call that
\* finds no entry for its key queries the external API.
C30_EntriesAreSuccessfulLookups ==
    /\ [](\A k \in DOMAIN nutritionCache :
             /\ k = CacheKey(k)
             /\ nutritionCache[k] # JNull
             /\ \E c \in 1..MaxCalls :
                   /\ Successful(c)
                   /\ CacheKey(calls[c].name) = k
                   /\ calls[c].result = nutritionCache[k])
    /\ [][\A c \in 1..MaxCalls :
             /\ (CallEnded(c) /\ calls'[c].result = JNull) =>
                   nutritionCache' = nutritionCache
             /\ (CallBegan(c)
                    /\ CacheKey(calls'[c].name) \notin DOMAIN nutritionCache)
                   => (calls'[c].pc = "fetching" /\ fetches' = fetches + 1)
          ]_vars

\* a lookup failed, a later call for the key queried again and stored
C30_Witness ==
    \E c \in 1..MaxCalls : \E d \in 1..MaxCalls :
        /\ calls[c].pc = "returned" /\ calls[c].fetched
        /\ calls[c].result = JNull
        /\ Successful(d)
        /\ calls[c].name # calls[d].name
        /\ CacheKey(calls[c].name) = CacheKey(calls[d].name)
        /\ nutritionCache[CacheKey(calls[d].name)] = calls[d].result
        /\ fetches = 2

(***************************************************************************)
(* Properties of register.                                                 *)
(***************************************************************************)
Answered(r) == regs[r].pc # "done" /\ regs'[r].pc = "done"

\* C29: after any interleaving of register requests at most one user
\* exists per email, and a register request for an email that has a user
\* is answered 400 'User already exists', with no token issued, no cookie
\* set and the user table as it was.
C29_RegisterKeepsEmailsUnique ==
    /\ [](\A i \in 1..Len(users) : \A j \in 1..Len(users) :
             users[i].email = users[j].email => i = j)
    /\ [][\A r \in 1..MaxRegs :
             (Answered(r) /\ findUnique(users, regs'[r].email)) =>
                 /\ regs'[r].status = 400
                 /\ regs'[r].error = "User already exists"
                 /\ ~regs'[r].token /\ ~regs'[r].cookie
                 /\ users' = users]_vars

=============================================================================
